---- MODULE Spec2Model ----
(***************************************************************************)
(* Verification model of the HeLa runtime SDK core: the accounts module    *)
(* (balances, roles, proposal governance, fee disbursement) and the        *)
(* dispatcher's batch splitter.                                            *)
(*                                                                         *)
(* Handlers are modelled as functions from (state, arguments) to           *)
(* [err, st]: the dispatcher runs a handler inside a transaction overlay   *)
(* and commits the overlay only when the call succeeds, so a handler that  *)
(* returns an error leaves the committed state untouched.  Gas charging    *)
(* (core module, use_tx_gas) is outside the modelled sources: every call   *)
(* is taken to carry enough gas.                                           *)
(***************************************************************************)
EXTENDS Integers, Sequences, FiniteSets, TLC

\* ------------------------------------------------------------------ bounds
MaxProposals == 2
MaxRound == 3
MaxNonce == 2
GenesisFunds == 22
MaxBatch == 3
MaxGroups == 2
MaxMessages == 2
MaxTxs == 3
MaxBatchGas == 3

\* ------------------------------------------------------- option encoding
\* Rust Option<T>: None is the empty sequence, Some(x) is <<x>>.
None == <<>>
Some(x) == <<x>>

\* ------------------------------------------------------------ vocabulary
Role ==
  {"Admin", "MintProposer", "BurnProposer", "WhitelistProposer", "BlacklistProposer",
   "MintVoter", "BurnVoter", "WhitelistVoter", "BlacklistVoter",
   "WhitelistedUser", "BlacklistedUser", "User"}

Action == {"NoAction", "SetRoles", "Mint", "Burn", "Whitelist", "Blacklist", "Config"}

Vote == {"VoteYes", "VoteNo", "VoteAbstain"}

ProposalState == {"Active", "Passed", "Rejected", "Expired", "Cancelled"}

NATIVE == "NATIVE"

Denominations == {NATIVE}

ADDRESS_COMMON_POOL == "common-pool"

ADDRESS_FEE_ACCUMULATOR == "fee-accumulator"

\* Governance participants; chain_initiator is the configured initiator.
chain_initiator == "A"

GovAddresses == {"A", "P", "V1", "V2", "V3", "B1", "W"}

Entities == {"E1", "E2", "E3"}

Addresses == GovAddresses \cup Entities \cup {ADDRESS_COMMON_POOL, ADDRESS_FEE_ACCUMULATOR}

U16 == 65536

\* ------------------------------------------------------------- variables
VARIABLES
  role,          \* ACCOUNTS: account.role per address
  init,          \* ACCOUNTS: account.init per address
  roles_index,   \* ROLES: set of <<address, role>> keys mapped to true
  balances,      \* BALANCES: address -> denomination -> amount
  total_supply,  \* TOTAL_SUPPLY: denomination -> amount
  proposals,     \* PROPOSALS: id -> Proposal (domain = stored ids)
  proposal_id,   \* PROPOSALS["proposal_id"] counter
  quorum,        \* PROPOSALS["proposal_<action>_quorum"], partial map
  events,        \* event tags returned with the results of the transactions, in order
  kv,            \* runtime state outside the accounts module: key -> value
  messages,      \* the batch context's emitted messages, each with its hook
  max_messages,  \* the batch context's limit on emitted messages
  nonce,         \* ACCOUNTS: account.nonce per address
  pending_fees,  \* the block context's FeeAccumulator.total_fees
  round,         \* runtime_header().round of the block being executed
  batch,         \* the transaction batch handed to the splitter
  all_batches,   \* the splitter's result: None before the split, Some(batches) after
  batch_result,  \* what the last executed batch returned: None before the first
  shards,        \* per shard of the batch: where it is in execute_batch_common,
                 \* its context's fee accumulator and emitted hooks
  CTX_FEE_ACCUM, \* static: the fees published by the shards before the last
  MSG_HANDLERS,  \* static: the hooks of the messages the shards emitted
  end_block_fees, \* the fee accumulator of the context end_block ran in
  contexts,      \* the contexts alive, outermost first: each its kind, mode,
                 \* message limit and emitted messages
  ctx_result,    \* what the last operation on the innermost context returned
  block_hashes,  \* evm BLOCK_HASHES: big-endian round key -> block hash
  evm_round,     \* runtime_header().round of the block the evm module ends next
  codes,         \* evm CODES: address -> contract code, empty when none
  info_cache,    \* static INFO_CACHE as tx_call fills it: transaction -> entry
  decoded        \* the CBOR value last handed to Meta's decoder, with what came of it

govVars == <<role, init, roles_index, balances, total_supply, proposals,
             proposal_id, quorum, events, kv, messages, max_messages>>

blockVars == <<nonce, pending_fees, round>>

shardVars == <<shards, CTX_FEE_ACCUM, MSG_HANDLERS, end_block_fees>>

ctxVars == <<contexts, ctx_result>>

evmVars == <<block_hashes, evm_round, codes, info_cache>>

metaVars == <<decoded>>

restVars == <<ctxVars, evmVars, metaVars>>

splitVars == <<batch, all_batches, batch_result, shardVars, restVars>>

vars == <<govVars, blockVars, splitVars>>

\* The batch context as one value, so handlers can be written as functions:
\* the committed store, the event tags and messages collected so far, and
\* the fields a transaction context adds (etags_unconditional, tx_messages,
\* and pending: whether its overlay holds a pending update), which are
\* empty outside a transaction.
Store ==
  [role |-> role, init |-> init, roles_index |-> roles_index, balances |-> balances,
   total_supply |-> total_supply, proposals |-> proposals, proposal_id |-> proposal_id,
   quorum |-> quorum, events |-> events, kv |-> kv, messages |-> messages,
   max_messages |-> max_messages, etags_unconditional |-> <<>>, tx_messages |-> <<>>,
   pending |-> FALSE]

Ok(st) == [err |-> "ok", st |-> st]

Err(e, st) == [err |-> e, st |-> st]

\* ------------------------------------------------------ accounts helpers
\* Mutant: the stored role ignored, the default role always answered.
get_role_default(st, address) == "User"

get_role(st, address) == st.role[address]

set_role(st, address, r) == [st EXCEPT !.role[address] = r]

get_initstatus(st, address) == st.init[address]

set_initstatus(st, address, b) == [st EXCEPT !.init[address] = b]

get_balance(st, address, denomination) == st.balances[address][denomination]

\* Removes every <<address, role>> key of the address, then writes the new
\* one unless the role is User.
add_role_to_address(st, address, r) ==
  [st EXCEPT !.roles_index =
     {e \in @ : e[1] # address} \cup (IF r # "User" THEN {<<address, r>>} ELSE {})]

get_addresses_in_role(st, r) == {e[1] : e \in {x \in st.roles_index : x[2] = r}}

get_addrsno_in_role(st, r) == Cardinality(get_addresses_in_role(st, r)) % U16

\* Mutant: every action is taken to be proposed by the Admin.
get_proposer_with_action_admin(action) == Some("Admin")

get_proposer_with_action(action) ==
  CASE action = "NoAction" -> None
    [] action = "SetRoles" -> Some("Admin")
    [] action = "Mint" -> Some("MintProposer")
    [] action = "Burn" -> Some("BurnProposer")
    [] action = "Whitelist" -> Some("WhitelistProposer")
    [] action = "Blacklist" -> Some("BlacklistProposer")
    [] action = "Config" -> Some("Admin")

\* Mutant: the voter role of an action confused with its proposer role.
get_voter_with_action_proposer(action) == get_proposer_with_action(action)

get_voter_with_action(action) ==
  CASE action = "NoAction" -> None
    [] action = "SetRoles" -> Some("Admin")
    [] action = "Mint" -> Some("MintVoter")
    [] action = "Burn" -> Some("BurnVoter")
    [] action = "Whitelist" -> Some("WhitelistVoter")
    [] action = "Blacklist" -> Some("BlacklistVoter")
    [] action = "Config" -> Some("Admin")

get_voters_num_with_action(st, action) ==
  CASE action = "Mint" -> get_addrsno_in_role(st, "MintVoter")
    [] action = "Burn" -> get_addrsno_in_role(st, "BurnVoter")
    [] action = "Whitelist" -> get_addrsno_in_role(st, "WhitelistVoter")
    [] action = "Blacklist" -> get_addrsno_in_role(st, "BlacklistVoter")
    [] action = "Config" -> get_addrsno_in_role(st, "Admin")
    [] action = "SetRoles" -> get_addrsno_in_role(st, "Admin")

\* The key under which an action's quorum is stored; SetRoles reads the
\* Config key.
QuorumKey(action) == IF action = "SetRoles" THEN "Config" ELSE action

\* Mutant: the stored quorum ignored, the default always answered.
get_quorum_default(st, action) == 100

get_quorum(st, action) ==
  IF QuorumKey(action) \in DOMAIN st.quorum THEN st.quorum[QuorumKey(action)] ELSE 100

set_quorum(st, action, q) ==
  [st EXCEPT !.quorum = (action :> q) @@ @]

\* ------------------------------------------------------- balances, supply
\* add_amount / sub_amount / inc_total_supply / dec_total_supply.  The u128
\* checked_add overflow is out of reach of the amounts used here.
add_amount(st, addr, amount) ==
  Ok([st EXCEPT !.balances[addr][amount.denomination] = @ + amount.amount])

sub_amount(st, addr, amount) ==
  IF st.balances[addr][amount.denomination] < amount.amount
  THEN Err("InsufficientBalance", st)
  ELSE Ok([st EXCEPT !.balances[addr][amount.denomination] = @ - amount.amount])

inc_total_supply(st, amount) ==
  Ok([st EXCEPT !.total_supply[amount.denomination] = @ + amount.amount])

dec_total_supply(st, amount) ==
  IF st.total_supply[amount.denomination] < amount.amount
  THEN Err("InsufficientBalance", st)
  ELSE Ok([st EXCEPT !.total_supply[amount.denomination] = @ - amount.amount])

emit_event(st, ev) == [st EXCEPT !.events = Append(@, ev)]

\* Mutant: a mint that credits the account but not the total supply.
mint_no_supply(st, to, amount) ==
  LET a == add_amount(st, to, amount) IN
  IF a.err # "ok" THEN Err(a.err, st) ELSE
  Ok(emit_event(a.st, [kind |-> "Mint", owner |-> to, amount |-> amount]))

mint(st, to, amount) ==
  LET a == add_amount(st, to, amount) IN
  IF a.err # "ok" THEN Err(a.err, st) ELSE
  LET b == inc_total_supply(a.st, amount) IN
  IF b.err # "ok" THEN Err(b.err, st) ELSE
  Ok(emit_event(b.st, [kind |-> "Mint", owner |-> to, amount |-> amount]))

\* dec_total_supply is unwrapped with expect(): a failure there aborts the
\* process ("panic").
burn(st, from, amount) ==
  LET a == sub_amount(st, from, amount) IN
  IF a.err # "ok" THEN Err(a.err, st) ELSE
  LET b == dec_total_supply(a.st, amount) IN
  IF b.err # "ok" THEN Err("panic", st) ELSE
  Ok(emit_event(b.st, [kind |-> "Burn", owner |-> from, amount |-> amount]))

\* accounts.MintST: refused when mints are disabled, else the amount is
\* minted to body.to (the gas is there).
tx_mintst(params, st, caller_address, body) ==
  IF params.mintst_disabled THEN Err("Forbidden", st)
  ELSE mint(st, body.to, body.amount)

\* accounts.BurnST: refused when burns are disabled or the caller is not
\* the chain initiator, else the amount is burnt from the caller.
tx_burnst(params, st, caller_address, body) ==
  IF params.burnst_disabled THEN Err("Forbidden", st) ELSE
  IF caller_address # params.chain_initiator THEN Err("Forbidden", st)
  ELSE burn(st, caller_address, body.amount)

\* ------------------------------------------------------------- proposals
NoData ==
  [address |-> None, amount |-> None, role |-> None, mint_quorum |-> None,
   burn_quorum |-> None, whitelist_quorum |-> None, blacklist_quorum |-> None,
   config_quorum |-> None]

NoResults == [v \in Vote |-> 0]

\* Proposal::default(): what get_proposal returns for an id that is not stored.
\* The submitter field is written once by Propose and read by no handler; it
\* is left out of the record.
DefaultProposal ==
  [id |-> 0, state |-> "Active",
   content |-> [action |-> "NoAction", data |-> NoData],
   results |-> NoResults, voteOption |-> <<>>]

get_proposal(st, id) ==
  IF id \in DOMAIN st.proposals THEN st.proposals[id] ELSE DefaultProposal

insert_proposal(st, proposal) ==
  [st EXCEPT !.proposals = (proposal.id :> proposal) @@ @]

get_and_increment_proposal_id(st) ==
  [st EXCEPT !.proposal_id = @ + 1, !.pending = TRUE]

\* Proposal::add_vote: the per-option tally is a u16.
add_vote(proposal, vote) ==
  [proposal EXCEPT !.results[vote] = (@ + 1) % U16]

\* Mutant: the threshold rounded down instead of up.
Threshold_floor(voter_total, pct) == ((voter_total * pct) \div 100) % U16

\* Yes and No thresholds: (p * q + 99) / 100, then "as u16".
Threshold(voter_total, pct) == ((voter_total * pct + 99) \div 100) % U16

\* u16 -> f32 conversion: round to nearest, ties to even, 24-bit significand.
F32Significand == 16777216

ToF32(n) ==
  IF n < F32Significand THEN n
  ELSE LET q == n \div 2 IN
       IF n % 2 = 0 THEN n ELSE IF q % 2 = 0 THEN 2 * q ELSE 2 * (q + 1)

\* Mutant: a strict comparison in the Abstain branch.
AbstainReached_strict(vote_count, voter_total) == 2 * ToF32(vote_count) > ToF32(voter_total)

\* vote_count as f32 >= voter_total as f32 * 0.5 (halving is exact in f32).
AbstainReached(vote_count, voter_total) == 2 * ToF32(vote_count) >= ToF32(voter_total)

\* The match on the action of a proposal whose Yes threshold is reached.
ApplyAction(st, action, data) ==
  CASE action = "Mint" ->
         IF data.address = None THEN Err("NotFound", st)
         ELSE IF data.amount = None THEN Err("NotFound", st)
         ELSE mint(st, data.address[1], data.amount[1])
    [] action = "Burn" ->
         IF data.address = None THEN Err("NotFound", st)
         ELSE IF data.amount = None THEN Err("NotFound", st)
         ELSE burn(st, data.address[1], data.amount[1])
    [] action = "Whitelist" ->
         IF data.address = None THEN Err("NotFound", st)
         ELSE Ok(add_role_to_address(set_role(st, data.address[1], "WhitelistedUser"),
                                     data.address[1], "WhitelistedUser"))
    [] action = "Blacklist" ->
         IF data.address = None THEN Err("NotFound", st)
         ELSE Ok(add_role_to_address(set_role(st, data.address[1], "BlacklistedUser"),
                                     data.address[1], "BlacklistedUser"))
    [] action = "Config" ->
         LET s1 == IF data.mint_quorum # None
                   THEN set_quorum(st, "Mint", data.mint_quorum[1]) ELSE st
             s2 == IF data.burn_quorum # None
                   THEN set_quorum(s1, "Burn", data.burn_quorum[1]) ELSE s1
             s3 == IF data.whitelist_quorum # None
                   THEN set_quorum(s2, "Whitelist", data.whitelist_quorum[1]) ELSE s2
             s4 == IF data.blacklist_quorum # None
                   THEN set_quorum(s3, "Blacklist", data.blacklist_quorum[1]) ELSE s3
             s5 == IF data.config_quorum # None
                   THEN set_quorum(s4, "Config", data.config_quorum[1]) ELSE s4
         IN Ok(s5)
    [] action = "NoAction" -> Ok(st)
    [] action = "SetRoles" ->
         IF data.address = None THEN Err("NotFound", st)
         ELSE IF data.role = None THEN Err("NotFound", st)
         ELSE Ok(add_role_to_address(set_role(st, data.address[1], data.role[1]),
                                     data.address[1], data.role[1]))

\* Mutant: the duplicate-vote test never finds the caller.
HasVoted_never(proposal, caller_address) == FALSE

\* The duplicate-vote test on the proposal's vote record.
HasVoted(proposal, caller_address) == caller_address \in DOMAIN proposal.voteOption

\* Mutant: the state test accepts every proposal.
IsActive_always(proposal) == TRUE

\* The state test that guards the tally.
IsActive(proposal) == proposal.state = "Active"

\* accounts.VoteST.  Every error return is taken before any store write
\* survives: the caller's overlay is rolled back on error.
tx_votest(st, caller_address, body) ==
  LET caller_role == get_role(st, caller_address)
      proposal == get_proposal(st, body.id)
  IN
  IF HasVoted(proposal, caller_address) THEN Err("VoteDup", st) ELSE
  LET p1 == [proposal EXCEPT !.voteOption = (caller_address :> body.option) @@ @] IN
  IF ~IsActive(p1) THEN Err("InvalidState", st) ELSE
  LET action == p1.content.action
      voter == get_voter_with_action(action)
  IN
  IF voter = None THEN Err("InvalidRole", st) ELSE
  IF caller_role # voter[1] THEN Err("InvalidRole", st) ELSE
  LET q == get_quorum(st, action) IN
  IF q > 100 THEN Err("InvalidQuorum", st) ELSE
  LET voter_total == get_voters_num_with_action(st, action)
      p2 == add_vote(p1, body.option)
      vote_count == p2.results[body.option]
      closed(p, s) == [p EXCEPT !.state = s, !.voteOption = <<>>]
  IN
  IF body.option = "VoteYes" THEN
    IF vote_count >= Threshold(voter_total, q) THEN
      LET applied == ApplyAction(st, action, p2.content.data) IN
      IF applied.err # "ok" THEN Err(applied.err, st)
      ELSE Ok(insert_proposal(applied.st, closed(p2, "Passed")))
    ELSE Ok(insert_proposal(st, p2))
  ELSE IF body.option = "VoteNo" THEN
    IF vote_count >= Threshold(voter_total, 100 - q)
    THEN Ok(insert_proposal(st, closed(p2, "Rejected")))
    ELSE Ok(insert_proposal(st, p2))
  ELSE
    IF AbstainReached(vote_count, voter_total)
    THEN Ok(insert_proposal(st, closed(p2, "Cancelled")))
    ELSE Ok(insert_proposal(st, p2))

\* Mutant: a quorum field of a Config proposal is never found too large.
is_valid_any(q) == TRUE

\* The closures of the Config branch of Propose: an absent quorum field is
\* valid, a present one must not exceed 100.
is_valid(q) == q = None \/ q[1] <= 100

is_some(q) == q # None

\* accounts.Propose.  The id counter is bumped first: an error returned
\* later leaves the bump in the transaction's overlay, which the dispatcher
\* then drops.
tx_propose(st, caller_address, body) ==
  LET caller_role == get_role(st, caller_address)
      s1 == get_and_increment_proposal_id(st)
      next_id == s1.proposal_id
      action == body.action
      proposer_role == get_proposer_with_action(action)
      voter_role == get_voter_with_action(action)
      target_role == get_role(st, body.data.address[1])
      d == body.data
  IN
  IF proposer_role = None THEN Err("InvalidRole", s1) ELSE
  IF voter_role = None THEN Err("InvalidRole", s1) ELSE
  IF ~(caller_role = proposer_role[1] \/ caller_role = voter_role[1])
  THEN Err("InvalidRole", s1) ELSE
  LET verdict ==
    CASE action \in {"Mint", "Burn"} ->
           IF d.address = None THEN "NotFound"
           ELSE IF target_role # "WhitelistedUser" THEN "InvalidArgument" ELSE "ok"
      [] action = "SetRoles" -> "ok"
      [] action = "Config" ->
           IF ~(  is_valid(d.mint_quorum) /\ is_valid(d.burn_quorum)
               /\ is_valid(d.whitelist_quorum) /\ is_valid(d.blacklist_quorum)
               /\ is_valid(d.config_quorum)
               /\ (  is_some(d.mint_quorum) \/ is_some(d.burn_quorum)
                  \/ is_some(d.whitelist_quorum) \/ is_some(d.blacklist_quorum)
                  \/ is_some(d.config_quorum)))
           THEN "InvalidArgument" ELSE "ok"
      [] action = "Whitelist" ->
           IF d.address = None THEN "NotFound"
           ELSE IF target_role = "BlacklistedUser" THEN "InvalidArgument" ELSE "ok"
      [] action = "Blacklist" ->
           IF d.address = None THEN "NotFound"
           ELSE IF target_role # "User" THEN "InvalidArgument" ELSE "ok"
      [] OTHER -> "InvalidArgument"
  IN
  IF verdict # "ok" THEN Err(verdict, s1) ELSE
  Ok(insert_proposal(s1,
       [id |-> next_id, state |-> "Active",
        content |-> body, results |-> NoResults, voteOption |-> <<>>]))

\* The loop of InitOwners over its (address, role) list.
RECURSIVE AssignRoles(_, _)
AssignRoles(st, body) ==
  IF body = <<>> THEN st
  ELSE AssignRoles(
         add_role_to_address(set_role(st, Head(body).address, Head(body).role),
                             Head(body).address, Head(body).role),
         Tail(body))

\* Mutant: InitOwners without the test of the initiator's init flag.
tx_initowners_again(st, caller_address, body) ==
  IF caller_address = chain_initiator
  THEN Ok(AssignRoles(set_initstatus(st, chain_initiator, TRUE), body))
  ELSE Err("Forbidden", st)

\* accounts.InitOwners.
tx_initowners(st, caller_address, body) ==
  IF caller_address = chain_initiator THEN
    IF ~get_initstatus(st, chain_initiator)
    THEN Ok(AssignRoles(set_initstatus(st, chain_initiator, TRUE), body))
    ELSE Ok(st)
  ELSE Err("Forbidden", st)

\* ---------------------------------------------------------------- inputs
RA(a, r) == [address |-> a, role |-> r]

Units(n) == [amount |-> n, denomination |-> NATIVE]

\* Role lists handed to InitOwners.
InitBodies ==
  { <<RA("A", "Admin"), RA("P", "MintProposer"), RA("V1", "MintVoter"),
      RA("V2", "MintVoter"), RA("V3", "MintVoter"), RA("B1", "BurnVoter"),
      RA("W", "WhitelistedUser")>> }

\* Proposal contents submitted to Propose.
ProposalContents ==
  { [action |-> "Config", data |-> [NoData EXCEPT !.mint_quorum = Some(qv)]] :
      qv \in {66, 67, 101} }
  \cup
  { [action |-> "Mint", data |-> [NoData EXCEPT !.address = Some("W"),
                                                !.amount = Some(Units(1000))]],
    [action |-> "Mint", data |-> [NoData EXCEPT !.address = Some("V1"),
                                                !.amount = Some(Units(1000))]],
    [action |-> "Burn", data |-> [NoData EXCEPT !.address = Some("W"),
                                                !.amount = Some(Units(1000))]],
    [action |-> "SetRoles", data |-> [NoData EXCEPT !.address = Some("V3"),
                                                    !.role = Some("User")]],
    [action |-> "NoAction", data |-> NoData] }

\* Votes name any id that can be stored, or one that is never stored.
VoteBodies == [id : 1..(MaxProposals + 1), option : Vote]

\* ---------------------------------------------------------- block handling
\* The sum check_invariants computes over the balances of all accounts.
RECURSIVE SumOver(_, _, _)
SumOver(bal, S, d) ==
  IF S = {} THEN 0
  ELSE LET a == CHOOSE x \in S : TRUE IN bal[a][d] + SumOver(bal, S \ {a}, d)

computed_ts(bal, d) == SumOver(bal, Addresses, d)

check_invariants(st) ==
  IF \A d \in Denominations : computed_ts(st.balances, d) = st.total_supply[d]
  THEN "ok" ELSE "InvariantViolation"

NoFees == [d \in Denominations |-> 0]

\* FeeAccumulator::add.
FeeAccumulator_add(acc, fee) == [acc EXCEPT ![fee.denomination] = @ + fee.amount]

\* The modes a context runs in.
Mode == {"ExecuteTx", "CheckTx", "SimulateTx", "PreScheduleTx"}

\* Mutant: no mode counts as a check.
is_check_only_never(mode) == FALSE

is_check_only(mode) == mode \in {"CheckTx", "PreScheduleTx"}

is_pre_schedule(mode) == mode = "PreScheduleTx"

is_simulation(mode) == mode = "SimulateTx"

MAX_CHECK_NONCE_FUTURE_DELTA == 0

ensure_balance(st, address, amount) ==
  IF get_balance(st, address, amount.denomination) < amount.amount
  THEN "InsufficientBalance" ELSE "ok"

move_into_fee_accumulator(mode, st, acc, from, amount) ==
  IF is_simulation(mode) THEN [err |-> "ok", st |-> st, acc |-> acc] ELSE
  LET s == sub_amount(st, from, amount) IN
  IF s.err # "ok" THEN [err |-> "InsufficientFeeBalance", st |-> st, acc |-> acc]
  ELSE [err |-> "ok", st |-> s.st, acc |-> FeeAccumulator_add(acc, amount)]

\* Mutant: every signer nonce is accepted.
check_signer_nonces_lenient(mode, nonces, signer_info) == "ok"

\* check_signer_nonces: each signer's nonce is compared with the nonce of
\* its account as stored before the transaction (nonce checking is enabled:
\* debug_disable_nonce_check is false).
RECURSIVE check_signer_nonces(_, _, _)
check_signer_nonces(mode, nonces, signer_info) ==
  IF signer_info = <<>> THEN "ok" ELSE
  LET si == Head(signer_info)
      account_nonce == nonces[si.address]
  IN
  IF si.nonce < account_nonce THEN "InvalidNonce"
  ELSE IF si.nonce > account_nonce /\ si.nonce - account_nonce > MAX_CHECK_NONCE_FUTURE_DELTA
       THEN "InvalidNonce"
  ELSE IF si.nonce > account_nonce /\ is_pre_schedule(mode) THEN "FutureNonce"
  ELSE IF si.nonce > account_nonce /\ ~is_check_only(mode) THEN "InvalidNonce"
  ELSE check_signer_nonces(mode, nonces, Tail(signer_info))

\* Mutant: only the payer's nonce is incremented.
update_signer_nonces_payer(nonces, signer_info) ==
  [nonces EXCEPT ![signer_info[1].address] = @ + 1]

\* update_signer_nonces: one increment per entry of the signer list (the
\* u64 overflow is out of reach).
RECURSIVE update_signer_nonces(_, _)
update_signer_nonces(nonces, signer_info) ==
  IF signer_info = <<>> THEN nonces
  ELSE update_signer_nonces([nonces EXCEPT ![Head(signer_info).address] = @ + 1],
                            Tail(signer_info))

\* authenticate_tx.  It runs in the batch context, before the call is
\* dispatched: what it writes is not part of the call's overlay.  The
\* payer is the first signer.
authenticate_tx(mode, st, acc, nonces, rnd, tx) ==
  LET fail(e) == [err |-> e, st |-> st, acc |-> acc, nonce |-> nonces]
      payer == tx.signer_info[1].address
      checked == check_signer_nonces(mode, nonces, tx.signer_info)
  IN
  IF tx.not_before # None /\ rnd < tx.not_before[1] THEN fail("ExpiredTransaction") ELSE
  IF tx.not_after # None /\ rnd > tx.not_after[1] THEN fail("ExpiredTransaction") ELSE
  IF checked # "ok" THEN fail(checked) ELSE
  IF get_role(st, payer) = "BlacklistedUser" THEN fail("NotAuthenticated") ELSE
  LET m == IF tx.fee.amount # 0
           THEN IF is_check_only(mode)
                THEN [err |-> IF ensure_balance(st, payer, tx.fee) = "ok"
                              THEN "ok" ELSE "InsufficientFeeBalance",
                      st |-> st, acc |-> acc]
                ELSE move_into_fee_accumulator(mode, st, acc, payer, tx.fee)
           ELSE [err |-> "ok", st |-> st, acc |-> acc]
  IN
  IF m.err # "ok" THEN fail(m.err)
  ELSE [err |-> "ok", st |-> m.st, acc |-> m.acc,
        nonce |-> IF ~is_check_only(mode)
                  THEN update_signer_nonces(nonces, tx.signer_info) ELSE nonces]

\* API transfer: nothing happens during checks.
transfer(mode, st, from, to, amount) ==
  IF is_check_only(mode) THEN Ok(st) ELSE
  LET a == sub_amount(st, from, amount) IN
  IF a.err # "ok" THEN Err(a.err, st) ELSE
  LET b == add_amount([a.st EXCEPT !.pending = TRUE], to, amount) IN
  IF b.err # "ok" THEN Err(b.err, [st EXCEPT !.pending = TRUE]) ELSE
  Ok(emit_event(b.st, [kind |-> "Transfer", from |-> from, to |-> to, amount |-> amount]))

\* accounts.Transfer (transfers are enabled: transfers_disabled is false).
tx_transfer(mode, st, caller_address, body) ==
  transfer(mode, st, caller_address, body.to, body.amount)

\* TxContext::emit_message: refused when the transaction context's message
\* slots (the batch context's remaining ones) are used up.
emit_message(st, msg, hook) ==
  IF Len(st.tx_messages) >= st.max_messages - Len(st.messages)
  THEN Err("OutOfMessageSlots", st)
  ELSE Ok([st EXCEPT !.tx_messages = Append(@, [msg |-> msg, hook |-> hook])])

\* A handler that uses every output of its transaction context: it emits
\* an unconditional event, an event and a message, inserts a key, and
\* then returns the error its body names, if any.
tx_emitting(st, body) ==
  LET s1 == [st EXCEPT !.etags_unconditional = Append(@, [kind |-> "Unconditional"])]
      s2 == emit_event(s1, [kind |-> "Emitted"])
      m == emit_message(s2, body.msg, body.hook)
  IN IF m.err # "ok" THEN m
     ELSE IF body.fails THEN Err("Failed", m.st)
     ELSE Ok([m.st EXCEPT !.kv.key = Some("emitted"), !.pending = TRUE])

\* dispatch_call: the method's handler, or InvalidMethod when no module
\* handles the method.  accounts.Propose is the governance handler;
\* alphabet.ReadOnly reads a key, alphabet.NotReadOnly
\* inserts one, alphabet.Aborting returns an abort.
dispatch_call(mode, st, caller_address, call) ==
  CASE call.method = "accounts.Transfer" ->
         tx_transfer(mode, st, caller_address, call.body)
    [] call.method = "accounts.Propose" ->
         tx_propose(st, caller_address, call.body)
    [] call.method = "alphabet.ReadOnly" -> Ok(st)
    [] call.method = "alphabet.NotReadOnly" ->
         Ok([st EXCEPT !.kv.key = Some("value"), !.pending = TRUE])
    [] call.method = "alphabet.Aborting" -> Err("Aborted", st)
    [] call.method = "test.Emitting" -> tx_emitting(st, call.body)
    [] OTHER -> Err("InvalidMethod", st)

\* Mutant: the read-only guard left out.
dispatch_tx_call_unguarded(mode, st, caller_address, call) ==
  dispatch_call(mode, st, caller_address, call)

\* dispatch_tx_call: the handler, then the read-only guard.  The overlay
\* has pending updates when the handler wrote to the store, whether or not
\* the write changed a value.
dispatch_tx_call(mode, st, caller_address, call) ==
  LET c == dispatch_call(mode, st, caller_address, call)
      has_pending_updates == c.st.pending
  IN IF call.read_only /\ has_pending_updates
     THEN Err("ReadOnlyTransaction", c.st)
     ELSE c

\* after_dispatch_tx: during checks, once the call has succeeded, the fee is
\* taken from the payer and the signers' nonces are incremented.
after_dispatch_tx(mode, st, nonces, tx, result) ==
  IF ~is_check_only(mode) THEN [st |-> st, nonce |-> nonces] ELSE
  IF result # "ok" THEN [st |-> st, nonce |-> nonces] ELSE
  [st |-> sub_amount(st, tx.signer_info[1].address, tx.fee).st,
   nonce |-> update_signer_nonces(nonces, tx.signer_info)]

\* Mutant: the overlay is committed whatever the call returned.
dispatch_tx_opts_commit(mode, st, acc, nonces, rnd, tx) ==
  LET a == authenticate_tx(mode, st, acc, nonces, rnd, tx)
      c == dispatch_tx_call(mode, a.st, tx.signer_info[1].address, tx.call)
      etags == SubSeq(c.st.events, Len(a.st.events) + 1, Len(c.st.events))
                 \o c.st.etags_unconditional
  IN IF a.err # "ok"
     THEN [result |-> a.err, dispatched |-> FALSE, tags |-> <<>>,
           st |-> st, acc |-> acc, nonce |-> nonces]
     ELSE [result |-> c.err, dispatched |-> TRUE, tags |-> etags,
           st |-> [c.st EXCEPT !.events = a.st.events \o etags,
                               !.messages = @ \o c.st.tx_messages,
                               !.etags_unconditional = <<>>, !.tx_messages = <<>>,
                               !.pending = FALSE],
           acc |-> a.acc, nonce |-> a.nonce]

\* dispatch_tx_opts with authentication: authenticate, run the call in a
\* transaction context with its own overlay, then commit or roll back.
\* The overlay is rolled back when the call failed or is read-only (the
\* result then carries the unconditional events) and during checks (the
\* result then carries no events); otherwise it is committed, the result
\* carries the events with the unconditional ones merged in, and the
\* messages go to the batch context.  The after-dispatch hook follows;
\* an abort is returned before the messages are forwarded.  dispatched
\* tells whether the call was handed to dispatch_tx_call.
dispatch_tx_opts(mode, st, acc, nonces, rnd, tx) ==
  LET a == authenticate_tx(mode, st, acc, nonces, rnd, tx) IN
  IF a.err # "ok"
  THEN [result |-> a.err, dispatched |-> FALSE, tags |-> <<>>,
        st |-> st, acc |-> acc, nonce |-> nonces]
  ELSE
  LET c == dispatch_tx_call(mode, a.st, tx.signer_info[1].address, tx.call)
      rolled_back == c.err # "ok" \/ tx.call.read_only
      committed == ~rolled_back /\ ~is_check_only(mode)
      etags == SubSeq(c.st.events, Len(a.st.events) + 1, Len(c.st.events))
      tags == IF rolled_back THEN c.st.etags_unconditional
              ELSE IF is_check_only(mode) THEN <<>>
              ELSE etags \o c.st.etags_unconditional
      kept == IF committed
              THEN [c.st EXCEPT !.etags_unconditional = <<>>, !.tx_messages = <<>>,
                               !.pending = FALSE]
              ELSE a.st
      h == after_dispatch_tx(mode, kept, a.nonce, tx, c.err)
  IN [result |-> c.err, dispatched |-> TRUE, tags |-> tags,
      st |-> [h.st EXCEPT !.events = a.st.events \o tags,
                          !.messages = IF committed THEN @ \o c.st.tx_messages ELSE @],
      acc |-> a.acc, nonce |-> h.nonce]

\* The loop of end_block crediting each good compute entity.
RECURSIVE CreditAll(_, _, _)
CreditAll(st, addrs, each_node_fee) ==
  IF addrs = {} THEN st
  ELSE LET a == CHOOSE x \in addrs : TRUE IN
       CreditAll(add_amount(st, a, Units(each_node_fee)).st, addrs \ {a}, each_node_fee)

\* The loop of end_block moving the block's fees to the accumulator address.
RECURSIVE AddFees(_, _, _)
AddFees(st, acc, denoms) ==
  IF denoms = {} THEN st
  ELSE LET d == CHOOSE x \in denoms : TRUE IN
       AddFees(add_amount(st, ADDRESS_FEE_ACCUMULATOR,
                          [amount |-> acc[d], denomination |-> d]).st,
               acc, denoms \ {d})

\* Mutant: each entity is paid nine tenths of the fees divided by their
\* number, rounded once.
end_block_tenths(st, acc, addrs) ==
  LET previous_fee == get_balance(st, ADDRESS_FEE_ACCUMULATOR, NATIVE)
      s1 == sub_amount(st, ADDRESS_FEE_ACCUMULATOR, Units(previous_fee)).st
      s2 == IF addrs # {} THEN
              CreditAll(add_amount(s1, ADDRESS_COMMON_POOL, Units(previous_fee \div 10)).st,
                        addrs, (9 * previous_fee) \div (10 * Cardinality(addrs)))
            ELSE s1
  IN [st |-> AddFees(s2, acc, Denominations), acc |-> NoFees]

\* accounts end_block: drain the accumulator address, pay the tax and the
\* good compute entities, then move the block's pending fees to the
\* accumulator address.
end_block(st, acc, addrs) ==
  LET previous_fee == get_balance(st, ADDRESS_FEE_ACCUMULATOR, NATIVE)
      s1 == sub_amount(st, ADDRESS_FEE_ACCUMULATOR, Units(previous_fee)).st
      s2 == IF addrs # {} THEN
              LET total_fees == previous_fee
                  tax == total_fees \div 10
                  s_tax == add_amount(s1, ADDRESS_COMMON_POOL, Units(tax)).st
                  remaining_fees == total_fees - tax
                  each_node_fee == remaining_fees \div Cardinality(addrs)
              IN CreditAll(s_tax, addrs, each_node_fee)
            ELSE s1
  IN [st |-> AddFees(s2, acc, Denominations), acc |-> NoFees]

\* ----------------------------------------------------------------- batches
\* The hooks some module of the runtime handles.
MessageHooks == {"consensus.TransferResult"}

\* The loop of handle_last_round_messages over the message events, with
\* the indices of the hooks not yet removed from the map.
RECURSIVE handle_events(_, _, _, _)
handle_events(stored, evs, handlers, dispatched) ==
  IF evs = <<>>
  THEN [err |-> IF handlers # {} THEN "MessageHandlerNotInvoked" ELSE "ok",
        dispatched |-> dispatched]
  ELSE LET event == Head(evs) IN
       IF event.index \notin handlers
       THEN [err |-> "MessageHandlerMissing", dispatched |-> dispatched]
       ELSE LET handler == stored[event.index + 1] IN
            IF handler.hook_name \notin MessageHooks
            THEN [err |-> "InvalidMethod", dispatched |-> dispatched]
            ELSE handle_events(stored, Tail(evs), handlers \ {event.index},
                               Append(dispatched,
                                      [hook_name |-> handler.hook_name, event |-> event,
                                       context |-> handler.payload]))

\* Mutant: hooks left without an event are not reported.
handle_last_round_messages_lenient(st, message_events) ==
  LET r == handle_events(st.kv.message_handlers, message_events,
                         {i - 1 : i \in DOMAIN st.kv.message_handlers}, <<>>)
  IN [r EXCEPT !.err = IF @ = "MessageHandlerNotInvoked" THEN "ok" ELSE @]

\* handle_last_round_messages: every message event of the last round is
\* matched, by index, with a hook persisted under MESSAGE_HANDLERS (a map
\* from the position of the message in its round to its hook) and handed
\* to the hook; a hook that is left over is an error.  dispatched lists
\* what was handed to the hooks, in order.
handle_last_round_messages(st, message_events) ==
  handle_events(st.kv.message_handlers, message_events,
                {i - 1 : i \in DOMAIN st.kv.message_handlers}, <<>>)

\* save_emitted_message_handlers: the hooks are stored under their
\* positions (position i of the sequence is index i - 1 of the map).
save_emitted_message_handlers(st, handlers) ==
  [st EXCEPT !.kv.message_handlers = handlers]

\* The loop of execute_batch over the decoded transactions: an abort
\* returned by dispatch_tx_opts ends it with that error (unless stop_on_abort
\* is off, which the code never does).
RECURSIVE execute_txs(_, _, _, _)
RECURSIVE executed_tx(_, _, _, _, _)
execute_txs(s, txs, rnd, stop_on_abort) ==
  IF txs = <<>> THEN s
  ELSE executed_tx(s, txs, rnd, stop_on_abort,
                   dispatch_tx_opts("ExecuteTx", s.st, s.acc, s.nonce, rnd, Head(txs)))

\* The rest of the loop's body once the head of txs gave the result d.
executed_tx(s, txs, rnd, stop_on_abort, d) ==
  IF stop_on_abort /\ d.result = "Aborted" THEN [s EXCEPT !.err = "Aborted"]
  ELSE execute_txs([s EXCEPT !.st = d.st, !.acc = d.acc, !.nonce = d.nonce,
                             !.results = Append(@, [result |-> d.result,
                                                    tags |-> d.tags])],
                   Tail(txs), rnd, stop_on_abort)

\* Mutant: the batch goes on after an abort.
execute_batch_ignoring_abort(ctx, b) ==
  execute_txs([err |-> "ok", st |-> ctx.st, acc |-> ctx.acc, nonce |-> ctx.nonce,
               results |-> <<>>, batch |-> b, tx_reject_hashes |-> <<>>],
              b, ctx.rnd, FALSE)

\* execute_batch (the closure handed to execute_batch_common): every raw
\* transaction is decoded first, and a malformed one fails the whole batch;
\* then the transactions are executed in order.
execute_batch(ctx, b) ==
  LET start == [err |-> "ok", st |-> ctx.st, acc |-> ctx.acc, nonce |-> ctx.nonce,
                results |-> <<>>, batch |-> b, tx_reject_hashes |-> <<>>]
  IN IF \E i \in DOMAIN b : b[i].malformed
     THEN [start EXCEPT !.err = "MalformedTransactionInBatch"]
     ELSE execute_txs(start, b, ctx.rnd, TRUE)

\* R::SCHEDULE_CONTROL, and the gas a batch may use (core parameters).
SCHEDULE_CONTROL == [min_remaining_gas |-> 1, max_tx_count |-> MaxTxs - 1]

\* The loop of schedule_and_execute_batch under a schedule control cfg.
\* s.gas is what Core::remaining_batch_gas returns: the batch's gas less
\* the gas the executed transactions used (gas_used, at most fee.gas).
\* Each raw transaction drained from the queue is rejected when malformed,
\* skipped when its gas or its message slots do not fit, then checked in a
\* child context in pre-schedule mode: FutureNonce from authentication
\* skips it, any other failure rejects it, an abort ends the batch with an
\* error, and success has it pushed to the new batch and executed
\* (s.checked marks a transaction that passed its check and is executed
\* next, in the batch context).
RECURSIVE schedule_loop(_, _, _, _)
RECURSIVE scheduled_tx(_, _, _, _, _)
schedule_loop(s, txs, rnd, cfg) ==
  IF txs = <<>> THEN s ELSE
  LET remaining_messages == s.st.max_messages - Len(s.st.messages)
      child == [s.st EXCEPT !.events = <<>>, !.messages = <<>>,
                            !.max_messages = remaining_messages]
      mode == IF s.checked THEN "ExecuteTx" ELSE "PreScheduleTx"
  IN scheduled_tx(s, txs, rnd, cfg,
                  dispatch_tx_opts(mode, IF s.checked THEN s.st ELSE child,
                                   IF s.checked THEN s.acc ELSE NoFees,
                                   s.nonce, rnd, Head(txs)))

\* The loop's body for the head of txs, d being what its dispatch (the
\* check, or the execution once checked) gives.
scheduled_tx(s, txs, rnd, cfg, d) ==
  LET raw_tx == Head(txs)
      remaining_gas == s.gas
      remaining_messages == s.st.max_messages - Len(s.st.messages)
  IN
  IF s.checked
  THEN IF d.result = "Aborted" THEN [s EXCEPT !.err = "Aborted"]
       ELSE schedule_loop([s EXCEPT !.st = d.st, !.acc = d.acc, !.nonce = d.nonce,
                                    !.gas = @ - raw_tx.gas_used,
                                    !.batch = Append(@, raw_tx),
                                    !.results = Append(@, [result |-> d.result,
                                                           tags |-> d.tags]),
                                    !.checked = FALSE],
                          Tail(txs), rnd, cfg)
  ELSE
  IF remaining_gas < cfg.min_remaining_gas \/ Len(s.batch) >= cfg.max_tx_count
  THEN s ELSE
  IF raw_tx.malformed
  THEN schedule_loop([s EXCEPT !.tx_reject_hashes = Append(@, raw_tx.hash)],
                     Tail(txs), rnd, cfg) ELSE
  IF raw_tx.fee.gas > remaining_gas THEN schedule_loop(s, Tail(txs), rnd, cfg) ELSE
  IF raw_tx.fee.consensus_messages > remaining_messages
  THEN schedule_loop(s, Tail(txs), rnd, cfg) ELSE
  IF ~d.dispatched /\ d.result = "FutureNonce"
  THEN schedule_loop(s, Tail(txs), rnd, cfg) ELSE
  IF d.result = "Aborted" THEN [s EXCEPT !.err = "Aborted"] ELSE
  IF d.result # "ok"
  THEN schedule_loop([s EXCEPT !.tx_reject_hashes = Append(@, raw_tx.hash)],
                     Tail(txs), rnd, cfg)
  ELSE schedule_loop([s EXCEPT !.checked = TRUE], txs, rnd, cfg)

\* The state the loop starts from: nothing scheduled, the whole gas left.
schedule(ctx, b, cfg) ==
  schedule_loop([err |-> "ok", st |-> ctx.st, acc |-> ctx.acc, nonce |-> ctx.nonce,
                 gas |-> MaxBatchGas, results |-> <<>>, batch |-> <<>>,
                 tx_reject_hashes |-> <<>>, checked |-> FALSE], b, ctx.rnd, cfg)

\* Mutant: no stop on the remaining gas or on the transaction count.
schedule_and_execute_batch_unbounded(ctx, b) ==
  schedule(ctx, b, [min_remaining_gas |-> 0, max_tx_count |-> MaxTxs + 1])

\* schedule_and_execute_batch (the closure handed to execute_batch_common).
schedule_and_execute_batch(ctx, b) == schedule(ctx, b, SCHEDULE_CONTROL)

\* The commit of a batch context e: its store with the hooks of the
\* emitted messages persisted.
batch_commit(e) ==
  save_emitted_message_handlers(e.st, [i \in DOMAIN e.st.messages |-> e.st.messages[i].hook])

\* What execute_batch_common does with the result r of f: an error is
\* returned and nothing is committed (unchanged is the state the batch
\* started from), else end_block runs and the context is committed.
batch_ended(r, e) ==
  [err |-> "ok", st |-> batch_commit(e), acc |-> e.acc, nonce |-> r.nonce,
   results |-> r.results, batch |-> r.batch, tx_reject_hashes |-> r.tx_reject_hashes]

batch_end(unchanged, good_compute_entities, r) ==
  IF r.err # "ok" THEN [unchanged EXCEPT !.err = r.err]
  ELSE batch_ended(r, end_block(r.st, r.acc, good_compute_entities))

\* execute_batch_common with one shard (th_idx = 0, num_th = 1): a fresh
\* batch context, the last round's message results, the closure f over the
\* batch b (that of schedule_and_execute_batch when scheduling, that of
\* execute_batch otherwise), the end-of-block hook, the commit, and the
\* hooks of the emitted messages persisted.  An error of the message results or of f is returned before
\* anything is committed.  c is the state the batch starts from: the store,
\* the nonces and the round.
execute_batch_common(c, message_events, good_compute_entities, scheduling, b) ==
  LET ctx == [st |-> [c.st EXCEPT !.events = <<>>, !.messages = <<>>],
              acc |-> NoFees, nonce |-> c.nonce, rnd |-> c.rnd]
      failed(e) == [err |-> e, st |-> c.st, acc |-> NoFees, nonce |-> c.nonce,
                    results |-> <<>>, batch |-> <<>>, tx_reject_hashes |-> <<>>]
      last == handle_last_round_messages(ctx.st, message_events)
  IN IF last.err # "ok" THEN failed(last.err)
     ELSE batch_end(failed("ok"), good_compute_entities,
                    IF scheduling THEN schedule_and_execute_batch(ctx, b)
                    ELSE execute_batch(ctx, b))

\* ------------------------------------------------------------ the splitter
\* A transaction's raw bytes are its name.  INFO_CACHE holds, for the
\* transactions that went through a check, (sender, receiver, whether the
\* transaction is a transfer to an address without code).
TxPool == {"T1", "T2", "T3", "T4", "T5", "T6"}

Info(s, r, t) == [sender |-> s, receiver |-> r, transfer |-> t]

INFO_CACHE ==
  [T1 |-> Info("A", "B", TRUE), T2 |-> Info("A", "B", TRUE), T3 |-> Info("B", "A", TRUE),
   T4 |-> Info("C", "D", TRUE), T5 |-> Info("A", "K", FALSE)]

Range(s) == {s[i] : i \in DOMAIN s}

\* The transactions of the batch that go to the graph, in batch order.
txn_infos(b) ==
  LET test(tx) == tx \in DOMAIN INFO_CACHE /\ INFO_CACHE[tx].transfer
  IN SelectSeq(b, test)

\* The transactions of the batch that stay in the first output batch.
sub_batch(b) ==
  LET test(tx) == ~(tx \in DOMAIN INFO_CACHE /\ INFO_CACHE[tx].transfer)
  IN SelectSeq(b, test)

\* tx_idx: the rank of a cached transaction among the cached transactions
\* of the batch.
tx_idx(b, tx) ==
  LET pos == CHOOSE i \in DOMAIN b : b[i] = tx
  IN Cardinality({i \in DOMAIN b : i < pos /\ b[i] \in DOMAIN INFO_CACHE})

\* The edges of the graph as (source, target) pairs, and its nodes.
Edges(transactions) ==
  {<<INFO_CACHE[tx].sender, INFO_CACHE[tx].receiver>> : tx \in Range(transactions)}

Nodes(transactions) ==
  {e[1] : e \in Edges(transactions)} \cup {e[2] : e \in Edges(transactions)}

\* Connected components of the undirected projection.
RECURSIVE Reach(_, _)
Reach(E, S) ==
  LET n == S \cup {e[2] : e \in {x \in E : x[1] \in S}}
             \cup {e[1] : e \in {x \in E : x[2] \in S}}
  IN IF n = S THEN S ELSE Reach(E, n)

ConnectedComponents(transactions) ==
  {Reach(Edges(transactions), {a}) : a \in Nodes(transactions)}

\* The find_map of process_node: the first transaction of the list with the
\* edge's sender and receiver.
find_map(transactions, source, target) ==
  LET i == CHOOSE k \in DOMAIN transactions :
             /\ INFO_CACHE[transactions[k]].sender = source
             /\ INFO_CACHE[transactions[k]].receiver = target
             /\ \A j \in 1..(k - 1) :
                  ~(  INFO_CACHE[transactions[j]].sender = source
                   /\ INFO_CACHE[transactions[j]].receiver = target)
  IN transactions[i]

\* process_node: one transaction for each outgoing edge of the node whose
\* (source, target) pair was not seen before.  Parallel edges have the same
\* pair, so each pair is answered once.
process_node(node, transactions) ==
  {find_map(transactions, e[1], e[2]) : e \in {x \in Edges(transactions) : x[1] = node}}

\* The transactions collected for one component.
ComponentTxs(nodes, transactions) ==
  UNION {process_node(node, transactions) : node \in nodes}

\* The stable sort of group_indices by group length.
RECURSIVE InsertStable(_, _, _)
InsertStable(sorted, x, groups) ==
  IF sorted = <<>> THEN <<x>>
  ELSE IF Cardinality(groups[Head(sorted)]) <= Cardinality(groups[x])
       THEN <<Head(sorted)>> \o InsertStable(Tail(sorted), x, groups)
       ELSE <<x>> \o sorted

RECURSIVE sort_group_indices(_, _)
sort_group_indices(indices, groups) ==
  IF indices = <<>> THEN <<>>
  ELSE InsertStable(sort_group_indices(SubSeq(indices, 1, Len(indices) - 1), groups),
                    indices[Len(indices)], groups)

\* Step 3 of split_transactions: each component goes to the group that is
\* first after sorting the group indices by length.
RECURSIVE distribute(_, _, _)
distribute(components, groups, group_indices) ==
  IF components = <<>> THEN groups
  ELSE LET gi == sort_group_indices(group_indices, groups)
       IN distribute(Tail(components),
                     [groups EXCEPT ![gi[1]] = @ \cup Head(components)], gi)

\* The orders in which the components can reach step 3: the map's values
\* come in any order and are then sorted, stably, by decreasing length.
ComponentOrders(transactions) ==
  LET cs == {ComponentTxs(c, transactions) : c \in ConnectedComponents(transactions)}
      n == Cardinality(cs)
  IN {o \in [1..n -> cs] :
        /\ \A i, j \in 1..n : i # j => o[i] # o[j]
        /\ \A i \in 1..(n - 1) : Cardinality(o[i]) >= Cardinality(o[i + 1])}

split_transactions(transactions, num_groups, order) ==
  distribute(order, [g \in 1..num_groups |-> {}], [g \in 1..num_groups |-> g])

\* A group's transactions in the reverse of batch order.
RECURSIVE sorted_batch_reversed(_, _)
sorted_batch_reversed(group, b) ==
  IF group = {} THEN <<>>
  ELSE LET last == CHOOSE tx \in group :
                     \A other \in group : tx_idx(b, tx) >= tx_idx(b, other)
       IN <<last>> \o sorted_batch_reversed(group \ {last}, b)

\* A group's transactions put back in batch order.
RECURSIVE sorted_batch(_, _)
sorted_batch(group, b) ==
  IF group = {} THEN <<>>
  ELSE LET first == CHOOSE tx \in group :
                      \A other \in group : tx_idx(b, tx) <= tx_idx(b, other)
       IN <<first>> \o sorted_batch(group \ {first}, b)

split_txn_batch(b, num_groups, order) ==
  IF Len(txn_infos(b)) > 0
  THEN LET groups == split_transactions(txn_infos(b), num_groups, order)
           nonempty == {g \in 1..num_groups : groups[g] # {}}
           kept(i) == groups[CHOOSE g \in nonempty :
                               Cardinality({h \in nonempty : h < g}) = i - 1]
       IN [i \in 1..(1 + Cardinality(nonempty)) |->
             IF i = 1 THEN sub_batch(b) ELSE sorted_batch(kept(i - 1), b)]
  ELSE <<sub_batch(b)>>

\* The batches handed to the splitter: transactions of the pool, each at
\* most once.
Batches ==
  UNION {{b \in [1..n -> TxPool] : \A i, j \in 1..n : i # j => b[i] # b[j]} :
           n \in 0..MaxBatch}

\* ------------------------------------------------------ initial states
\* Account::default(): nonce 0, role User, init false.
DefaultAccounts == [a \in Addresses |-> [nonce |-> 0, role |-> "User", init |-> FALSE]]

\* The module's init at genesis: the genesis accounts are stored as given
\* (nothing is written to ROLES, and genesis.roles_accounts is not read),
\* the balances are stored with the total supply init validates against
\* them, and there are no proposals and no stored quorum.
GenesisFrom(genesis_accounts, genesis_balances) ==
  /\ role = [a \in Addresses |-> genesis_accounts[a].role]
  /\ init = [a \in Addresses |-> genesis_accounts[a].init]
  /\ roles_index = {}
  /\ balances = genesis_balances
  /\ total_supply = [d \in Denominations |-> computed_ts(genesis_balances, d)]
  /\ proposals = <<>>
  /\ proposal_id = 0
  /\ quorum = <<>>
  /\ events = <<>>
  /\ kv = [key |-> None, message_handlers |-> <<>>]
  /\ messages = <<>>
  /\ max_messages = MaxMessages
  /\ nonce = [a \in Addresses |-> genesis_accounts[a].nonce]
  /\ pending_fees = NoFees
  /\ round = 0

\* Genesis without accounts: every account is the default one.
Genesis(genesis_balances) == GenesisFrom(DefaultAccounts, genesis_balances)

NoBalances == [a \in Addresses |-> [d \in Denominations |-> 0]]

\* The shards of a batch: th_idx runs over 0..num_th - 1.
num_th == MaxGroups

Shards == 0..(num_th - 1)

\* A shard about to enter execute_batch_common, with a fresh context.
\* Shard 0 starts by clearing the two statics; the others go on to f.
NewShard(th_idx) ==
  [pc |-> IF th_idx = 0 THEN "clear_msg" ELSE "run",
   acc |-> 0, collected |-> 0, handlers |-> <<>>]

\* The process starts with its statics empty and no batch executed.
ShardsInit ==
  /\ shards = [th_idx \in Shards |-> NewShard(th_idx)]
  /\ CTX_FEE_ACCUM = <<>>
  /\ MSG_HANDLERS = <<>>
  /\ end_block_fees = None

\* The batch context from_runtime builds: no message emitted, the limit the
\* runtime host gives.
BatchContext(mode) ==
  [kind |-> "batch", mode |-> mode, max_messages |-> MaxMessages, messages |-> <<>>]

CtxInit ==
  /\ contexts = <<BatchContext("ExecuteTx")>>
  /\ ctx_result = None

\* The evm module's state at genesis: no block hash, no contract, nothing
\* cached.
EvmInit ==
  /\ block_hashes = <<>>
  /\ evm_round = 0
  /\ codes = [a \in Addresses |-> <<>>]
  /\ info_cache = <<>>

MetaInit == decoded = None

RestInit == CtxInit /\ EvmInit /\ MetaInit

GovInit ==
  /\ Genesis(NoBalances)
  /\ batch = <<>>
  /\ all_batches = None
  /\ batch_result = None
  /\ ShardsInit
  /\ RestInit

BlockInit ==
  /\ Genesis([NoBalances EXCEPT !["A"][NATIVE] = GenesisFunds])
  /\ batch = <<>>
  /\ all_batches = None
  /\ batch_result = None
  /\ ShardsInit
  /\ RestInit

SplitInit ==
  /\ Genesis(NoBalances)
  /\ batch \in Batches
  /\ all_batches = None
  /\ batch_result = None
  /\ ShardsInit
  /\ RestInit

\* ------------------------------------------------------------- governance
\* What dispatch_tx_opts does with a handler's result: commit the overlay
\* when the call succeeded, roll it back otherwise.
Dispatched(r, st) ==
  IF r.err = "ok" THEN Ok([r.st EXCEPT !.pending = FALSE]) ELSE Err(r.err, st)

Commit(r) ==
  /\ role' = r.st.role
  /\ init' = r.st.init
  /\ roles_index' = r.st.roles_index
  /\ balances' = r.st.balances
  /\ total_supply' = r.st.total_supply
  /\ proposals' = r.st.proposals
  /\ proposal_id' = r.st.proposal_id
  /\ quorum' = r.st.quorum
  /\ events' = r.st.events
  /\ kv' = r.st.kv
  /\ messages' = r.st.messages
  /\ max_messages' = r.st.max_messages

InitOwners(caller, body) ==
  /\ Commit(tx_initowners(Store, caller, body))
  /\ UNCHANGED <<blockVars, splitVars>>

\* Each prepared content is submitted at most once in a run.
Propose(caller, body) ==
  /\ proposal_id < MaxProposals
  /\ \A i \in DOMAIN proposals : proposals[i].content # body
  /\ Commit(Dispatched(tx_propose(Store, caller, body), Store))
  /\ UNCHANGED <<blockVars, splitVars>>

VoteST(caller, body) ==
  /\ Commit(tx_votest(Store, caller, body))
  /\ UNCHANGED <<blockVars, splitVars>>

Next ==
  \/ \E caller \in GovAddresses, body \in InitBodies : InitOwners(caller, body)
  \/ \E caller \in GovAddresses, body \in ProposalContents : Propose(caller, body)
  \/ \E caller \in GovAddresses, body \in VoteBodies : VoteST(caller, body)

Spec == GovInit /\ [][Next]_vars

\* ------------------------------------------------- governance of the roles
\* A second set of inputs for the same three handlers: a genesis that may
\* carry an account with a role, role lists with whitelist and blacklist
\* roles (one of them names an address twice), and proposals on them.
GenesisAccountsR ==
  { DefaultAccounts, [DefaultAccounts EXCEPT !["V3"].role = "MintVoter"] }

InitBodiesR ==
  { <<RA("A", "Admin"), RA("P", "WhitelistProposer"), RA("V1", "WhitelistVoter"),
      RA("V2", "BlacklistVoter"), RA("V3", "MintVoter"), RA("B1", "BlacklistedUser")>>,
    <<RA("A", "Admin"), RA("V1", "MintVoter"), RA("V1", "BurnVoter"),
      RA("P", "BlacklistProposer")>> }

ProposalContentsR ==
  { [action |-> "Whitelist", data |-> [NoData EXCEPT !.address = Some("W")]],
    [action |-> "Whitelist", data |-> [NoData EXCEPT !.address = Some("B1")]],
    [action |-> "Blacklist", data |-> [NoData EXCEPT !.address = Some("W")]],
    [action |-> "Blacklist", data |-> [NoData EXCEPT !.address = Some("V3")]],
    [action |-> "Mint", data |-> [NoData EXCEPT !.address = Some("W"),
                                                !.amount = Some(Units(5))]],
    [action |-> "Burn", data |-> [NoData EXCEPT !.address = Some("W"),
                                                !.amount = Some(Units(5))]],
    [action |-> "Config", data |-> NoData],
    [action |-> "Config", data |-> [NoData EXCEPT !.blacklist_quorum = Some(101)]],
    [action |-> "SetRoles", data |-> [NoData EXCEPT !.address = Some("V1"),
                                                    !.role = Some("User")]],
    [action |-> "NoAction", data |-> NoData] }

RolesInit ==
  /\ \E genesis_accounts \in GenesisAccountsR : GenesisFrom(genesis_accounts, NoBalances)
  /\ batch = <<>>
  /\ all_batches = None
  /\ batch_result = None
  /\ ShardsInit
  /\ RestInit

NextRoles ==
  \/ \E caller \in GovAddresses, body \in InitBodiesR : InitOwners(caller, body)
  \/ \E caller \in GovAddresses, body \in ProposalContentsR : Propose(caller, body)
  \/ \E caller \in GovAddresses, body \in VoteBodies : VoteST(caller, body)

SpecRoles == RolesInit /\ [][NextRoles]_vars

\* ------------------------------------------- governance of a mint's target
\* A third set of proposals for the same handlers: a mint to and a burn from
\* the whitelisted account, and changes of that account's role.
ProposalContentsT ==
  { [action |-> "Mint", data |-> [NoData EXCEPT !.address = Some("W"),
                                                !.amount = Some(Units(5))]],
    [action |-> "Burn", data |-> [NoData EXCEPT !.address = Some("W"),
                                                !.amount = Some(Units(5))]],
    [action |-> "SetRoles", data |-> [NoData EXCEPT !.address = Some("W"),
                                                    !.role = Some("User")]],
    [action |-> "SetRoles", data |-> [NoData EXCEPT !.address = Some("W"),
                                                    !.role = Some("BlacklistedUser")]] }

NextTarget ==
  \/ \E caller \in GovAddresses, body \in InitBodies : InitOwners(caller, body)
  \/ \E caller \in GovAddresses, body \in ProposalContentsT : Propose(caller, body)
  \/ \E caller \in GovAddresses, body \in VoteBodies : VoteST(caller, body)

SpecTarget == GovInit /\ [][NextTarget]_vars

\* ------------------------------------------------------------------ blocks
Payers == {"A", "W"}

Fees == {0, 1, 10, 11}

SI(a, n) == [address |-> a, nonce |-> n]

AuthTxs ==
  [signer_info : {<<SI(a, n)>> : a \in Payers, n \in 0..MaxNonce},
   fee : {Units(f) : f \in Fees},
   not_before : {None, Some(1)}, not_after : {None, Some(0)}]

\* A transaction of the block passes authentication (or is refused by it).
AuthenticateTx(tx) ==
  LET r == authenticate_tx("ExecuteTx", Store, pending_fees, nonce, round, tx) IN
  /\ nonce[tx.signer_info[1].address] < MaxNonce
  /\ Commit(r)
  /\ pending_fees' = r.acc
  /\ nonce' = r.nonce
  /\ UNCHANGED <<round, splitVars>>

\* The block ends with the given good compute entities; the next round starts.
EndBlock(good_compute_entities) ==
  LET r == end_block(Store, pending_fees, good_compute_entities) IN
  /\ round < MaxRound
  /\ Commit(r)
  /\ pending_fees' = r.acc
  /\ round' = round + 1
  /\ UNCHANGED <<nonce, splitVars>>

NextBlock ==
  \/ \E tx \in AuthTxs : AuthenticateTx(tx)
  \/ \E good \in SUBSET Entities : EndBlock(good)

SpecBlock == BlockInit /\ [][NextBlock]_vars

\* ------------------------------------------------------------ transactions
\* Transactions dispatched one by one: A holds funds, B1 holds funds and is
\* a BlacklistedUser from genesis, W holds nothing.
\* The signer list names one signer, A twice, or A and W; the call is a
\* transfer A can afford, one nobody can afford, or an unknown method.
Txs ==
  [signer_info :
     {<<SI(a, n)>> : a \in {"A", "W", "B1"}, n \in 0..MaxNonce}
     \cup {<<SI("A", n), SI("A", n)>> : n \in 0..MaxNonce}
     \cup {<<SI("A", n), SI("W", k)>> : n \in 0..MaxNonce, k \in 0..MaxNonce},
   fee : {Units(0), Units(1)},
   not_before : {None, Some(1)}, not_after : {None},
   call :
     { [method |-> "accounts.Transfer", read_only |-> FALSE,
        body |-> [to |-> "W", amount |-> Units(1)]],
       [method |-> "accounts.Transfer", read_only |-> FALSE,
        body |-> [to |-> "W", amount |-> Units(2 * GenesisFunds)]],
       [method |-> "unknown.Method", read_only |-> FALSE, body |-> <<>>] }]

TxInit ==
  /\ GenesisFrom([DefaultAccounts EXCEPT !["B1"].role = "BlacklistedUser"],
                 [NoBalances EXCEPT !["A"][NATIVE] = GenesisFunds, !["B1"][NATIVE] = 2])
  /\ batch = <<>>
  /\ all_batches = None
  /\ batch_result = None
  /\ ShardsInit
  /\ RestInit

\* One transaction goes through dispatch_tx_opts.  While executing, what it
\* leaves behind is the new state; a check, a pre-schedule check or a
\* simulation runs in a child context whose overlay is dropped.
DispatchTx(mode, tx) ==
  LET r == dispatch_tx_opts(mode, Store, pending_fees, nonce, round, tx) IN
  /\ \A i \in DOMAIN tx.signer_info : nonce[tx.signer_info[i].address] < MaxNonce
  /\ IF mode = "ExecuteTx"
     THEN Commit(r) /\ pending_fees' = r.acc /\ nonce' = r.nonce
     ELSE UNCHANGED <<govVars, pending_fees, nonce>>
  /\ UNCHANGED <<round, splitVars>>

NextTx == \E mode \in Mode, tx \in Txs : DispatchTx(mode, tx)

SpecTx == TxInit /\ [][NextTx]_vars

\* ------------------------------------------------------- batches of a round
\* The raw transactions a proposer may put in a batch.  Each names what it
\* decodes to (or that it does not decode), and the gas its execution uses.
Raw(hash, signer, fee, gas, gas_used, consensus_messages, call) ==
  [hash |-> hash, malformed |-> FALSE, gas_used |-> gas_used,
   signer_info |-> <<SI(signer, 0)>>,
   fee |-> [amount |-> fee, denomination |-> NATIVE, gas |-> gas,
            consensus_messages |-> consensus_messages],
   not_before |-> None, not_after |-> None, call |-> call]

Emitting(payload, fails) ==
  [method |-> "test.Emitting", read_only |-> FALSE,
   body |-> [msg |-> payload, fails |-> fails,
             hook |-> [hook_name |-> "consensus.TransferResult", payload |-> payload]]]

RawTxs ==
  { Raw("t1", "A", 10, MaxBatchGas, MaxBatchGas,
        0, [method |-> "accounts.Transfer", read_only |-> FALSE,
            body |-> [to |-> "W", amount |-> Units(1)]]),
    Raw("t2", "W", 0, 1, 1, 1, Emitting("p1", FALSE)),
    Raw("t3", "P", 0, 2, 1, MaxMessages, Emitting("p2", FALSE)),
    Raw("t4", "V1", 0, 1, 0, 0,
        [method |-> "alphabet.Aborting", read_only |-> FALSE, body |-> <<>>]),
    [Raw("t5", "V2", 0, 1, 0, 0,
         [method |-> "alphabet.ReadOnly", read_only |-> TRUE, body |-> <<>>])
       EXCEPT !.malformed = TRUE] }

\* The transactions dispatched one by one: each handler, as a read-only
\* call and as an ordinary one, signed by A, who holds funds, or by W, with
\* a nonce the signer has or has yet to reach.
CallTxs ==
  { [Raw("c", signer, fee, 1, 0, 0, call) EXCEPT !.signer_info = <<SI(signer, n)>>] :
      signer \in Payers, fee \in {0}, n \in 0..(MaxNonce - 1),
      call \in [method : {"alphabet.ReadOnly", "alphabet.NotReadOnly"},
                read_only : BOOLEAN, body : {<<>>}]
              \cup [method : {"accounts.Transfer"}, read_only : BOOLEAN,
                    body : {[to |-> "W", amount |-> Units(1)]}]
              \cup {[Emitting("p3", fails) EXCEPT !.read_only = ro] :
                      fails \in BOOLEAN, ro \in BOOLEAN} }

\* The transactions that decode, in and outside the batches.
DecodedTxs == CallTxs \cup {tx \in RawTxs : ~tx.malformed}

\* The batches: up to MaxTxs distinct raw transactions, in any order.
RawBatches ==
  {b \in UNION {[1..n -> RawTxs] : n \in 0..MaxTxs} :
     \A i, j \in DOMAIN b : i # j => b[i] # b[j]}

\* The message events a round's results may carry: each names the position
\* of its message in the round that emitted it.
MessageEvents ==
  {<<>>, <<[index |-> 0]>>, <<[index |-> 0], [index |-> 1]>>}

BatchInit ==
  /\ Genesis([NoBalances EXCEPT !["A"][NATIVE] = GenesisFunds])
  /\ batch = <<>>
  /\ all_batches = None
  /\ batch_result = None
  /\ ShardsInit
  /\ RestInit

\* What a batch operation leaves behind: the committed state of a batch
\* that succeeded and the next round, nothing of a batch that failed.
Executed(r, b) ==
  /\ round < MaxRound - 1   \* the rounds before the last one execute a batch
  /\ Commit(r)
  /\ pending_fees' = r.acc
  /\ nonce' = r.nonce
  /\ round' = IF r.err = "ok" THEN round + 1 ELSE round
  /\ batch_result' = Some([err |-> r.err, executed |-> Len(r.results),
                           rejected |-> Len(r.tx_reject_hashes)])
  /\ UNCHANGED <<batch, all_batches, shardVars, restVars>>

\* Dispatcher::execute_batch on a batch the proposer scheduled.
ExecuteBatch(b, message_events, good_compute_entities) ==
  \E r \in {execute_batch_common([st |-> Store, nonce |-> nonce, rnd |-> round],
                                 message_events, good_compute_entities, FALSE, b)} :
    Executed(r, b)

\* Dispatcher::schedule_and_execute_batch on a queue of raw transactions.
ScheduleAndExecuteBatch(b, message_events, good_compute_entities) ==
  \E r \in {execute_batch_common([st |-> Store, nonce |-> nonce, rnd |-> round],
                                 message_events, good_compute_entities, TRUE, b)} :
    Executed(r, b)

NextBatch ==
  \/ \E b \in RawBatches, ev \in MessageEvents, good \in {{"E1", "E2"}} :
       ExecuteBatch(b, ev, good)
  \/ \E b \in RawBatches, ev \in MessageEvents, good \in {{"E1", "E2"}} :
       ScheduleAndExecuteBatch(b, ev, good)

SpecBatch == BatchInit /\ [][NextBatch]_vars

\* The same runtime with its transactions dispatched one by one.
NextCall == \E mode \in Mode, tx \in CallTxs : DispatchTx(mode, tx)

SpecCall == BatchInit /\ [][NextCall]_vars

\* --------------------------------------------------- the shards of a batch
\* execute_batch_common run by num_th shards at once.  Nothing in it orders
\* the shards, so each step below is one shard going from one access of a
\* shared static to the next (each access takes the static's lock for
\* itself).  What f collects in fees and emits in hooks is an input.
Step(th_idx, from, to) ==
  /\ shards[th_idx].pc = from
  /\ shards' = [shards EXCEPT ![th_idx].pc = to]

\* Shard 0: MSG_HANDLERS.lock().unwrap().clear().
ClearMsgHandlers ==
  /\ Step(0, "clear_msg", "clear_fee")
  /\ MSG_HANDLERS' = <<>>
  /\ UNCHANGED <<govVars, blockVars, batch, all_batches, batch_result, restVars,
                 CTX_FEE_ACCUM, end_block_fees>>

\* Shard 0: CTX_FEE_ACCUM.lock().unwrap().clear().
ClearFeeAccum ==
  /\ Step(0, "clear_fee", "run")
  /\ CTX_FEE_ACCUM' = <<>>
  /\ UNCHANGED <<govVars, blockVars, batch, all_batches, batch_result, restVars,
                 MSG_HANDLERS, end_block_fees>>

\* The hook of the message a shard emits: its payload names the shard and
\* the round.
ShardHook(th_idx, rnd) ==
  [hook_name |-> "consensus.TransferResult", payload |-> <<th_idx, rnd>>]

\* f(&mut ctx): the shard's transactions leave their fees in the context's
\* fee accumulator and their messages, with the hooks, in the context.
\* Shard 0's handle_last_round_messages and begin_block come right before
\* f, touch none of the statics and are taken to succeed here.
RunShard(th_idx, fee, emits) ==
  /\ shards[th_idx].pc = "run"
  /\ shards' = [shards EXCEPT ![th_idx] =
                  [pc |-> "fees", acc |-> fee, collected |-> fee,
                   handlers |-> IF emits THEN <<ShardHook(th_idx, round)>> ELSE <<>>]]
  /\ UNCHANGED <<govVars, blockVars, batch, all_batches, batch_result, restVars,
                 CTX_FEE_ACCUM, MSG_HANDLERS, end_block_fees>>

\* A shard before the last takes its fee accumulator and pushes what it
\* holds to CTX_FEE_ACCUM.
PublishFees(th_idx) ==
  /\ num_th > 1 /\ th_idx < num_th - 1
  /\ shards[th_idx].pc = "fees"
  /\ shards' = [shards EXCEPT ![th_idx].pc = "commit", ![th_idx].acc = 0]
  /\ CTX_FEE_ACCUM' = IF shards[th_idx].acc > 0
                      THEN Append(CTX_FEE_ACCUM, Units(shards[th_idx].acc))
                      ELSE CTX_FEE_ACCUM
  /\ UNCHANGED <<govVars, blockVars, batch, all_batches, batch_result, restVars,
                 MSG_HANDLERS, end_block_fees>>

\* The last shard adds every entry of CTX_FEE_ACCUM to its fee accumulator
\* (the entries stay in the static) and runs end_block with the result.
AggregateFees ==
  LET th_idx == num_th - 1
      published == IF num_th > 1
                   THEN SumOver([i \in DOMAIN CTX_FEE_ACCUM |->
                                   [NATIVE |-> CTX_FEE_ACCUM[i].amount]],
                                DOMAIN CTX_FEE_ACCUM, NATIVE)
                   ELSE 0
  IN /\ shards[th_idx].pc = "fees"
     /\ shards' = [shards EXCEPT ![th_idx].pc = "commit", ![th_idx].acc = 0]
     /\ end_block_fees' = Some(shards[th_idx].acc + published)
     /\ UNCHANGED <<govVars, blockVars, batch, all_batches, batch_result, restVars,
                    CTX_FEE_ACCUM, MSG_HANDLERS>>

\* ctx.commit(): the shard appends the hooks of its messages, if it has
\* any, to MSG_HANDLERS.
CommitShard(th_idx) ==
  /\ Step(th_idx, "commit", IF th_idx = num_th - 1 THEN "save" ELSE "done")
  /\ MSG_HANDLERS' = MSG_HANDLERS \o shards[th_idx].handlers
  /\ UNCHANGED <<govVars, blockVars, batch, all_batches, batch_result, restVars,
                 CTX_FEE_ACCUM, end_block_fees>>

\* The last shard drains MSG_HANDLERS and persists what it held.
SaveHandlers ==
  /\ Step(num_th - 1, "save", "done")
  /\ MSG_HANDLERS' = <<>>
  /\ Commit(Ok(save_emitted_message_handlers(Store, MSG_HANDLERS)))
  /\ UNCHANGED <<blockVars, batch, all_batches, batch_result, restVars,
                 CTX_FEE_ACCUM, end_block_fees>>

\* Every shard has returned: the next batch is handed to fresh contexts.
\* The statics are the process's, and stay as the batch left them.
NextRound ==
  /\ \A th_idx \in Shards : shards[th_idx].pc = "done"
  /\ round < MaxRound - 1
  /\ round' = round + 1
  /\ shards' = [th_idx \in Shards |-> NewShard(th_idx)]
  /\ end_block_fees' = None
  /\ UNCHANGED <<govVars, nonce, pending_fees, batch, all_batches, batch_result, restVars,
                 CTX_FEE_ACCUM, MSG_HANDLERS>>

NextShards ==
  \/ ClearMsgHandlers
  \/ ClearFeeAccum
  \/ \E th_idx \in Shards, fee \in {0, 1}, emits \in BOOLEAN :
       RunShard(th_idx, fee, emits)
  \/ \E th_idx \in Shards : PublishFees(th_idx)
  \/ AggregateFees
  \/ \E th_idx \in Shards : CommitShard(th_idx)
  \/ SaveHandlers
  \/ NextRound

SpecShards == BatchInit /\ [][NextShards]_vars

\* ------------------------------------------------ proposals, dispatched
\* Propose transactions sent through the dispatcher.  Genesis gives A the
\* role Admin, P the role MintProposer and W the role WhitelistedUser; V1
\* is a plain user.
ProposeAccounts ==
  [DefaultAccounts EXCEPT !["A"].role = "Admin", !["P"].role = "MintProposer",
                          !["W"].role = "WhitelistedUser"]

\* What they submit: a Mint for W (whom it may credit), a Mint for V1 (whom
\* it may not), two Configs, and a proposal without an action.
ProposeContents ==
  { [action |-> "Mint", data |-> [NoData EXCEPT !.address = Some("W"),
                                                !.amount = Some(Units(1))]],
    [action |-> "Mint", data |-> [NoData EXCEPT !.address = Some("V1"),
                                                !.amount = Some(Units(1))]],
    [action |-> "Config", data |-> [NoData EXCEPT !.mint_quorum = Some(66)]],
    [action |-> "Config", data |-> [NoData EXCEPT !.burn_quorum = Some(67)]],
    [action |-> "NoAction", data |-> NoData] }

ProposeTxs ==
  { [Raw("p", signer, 0, 1, 0, 0,
         [method |-> "accounts.Propose", read_only |-> ro, body |-> content])
       EXCEPT !.signer_info = <<SI(signer, n)>>] :
      signer \in {"A", "P", "V1"}, n \in 0..(MaxNonce - 1),
      ro \in BOOLEAN, content \in ProposeContents }

ProposeInit ==
  /\ GenesisFrom(ProposeAccounts, NoBalances)
  /\ batch = <<>>
  /\ all_batches = None
  /\ batch_result = None
  /\ ShardsInit
  /\ RestInit

DispatchPropose(mode, tx) ==
  /\ proposal_id < MaxProposals
  /\ DispatchTx(mode, tx)

NextPropose == \E mode \in Mode, tx \in ProposeTxs : DispatchPropose(mode, tx)

SpecPropose == ProposeInit /\ [][NextPropose]_vars

\* ------------------------------------------------ the administrative calls
\* The module parameters the two calls read, under every setting of the
\* two flags.
AdminParams ==
  [mintst_disabled : BOOLEAN, burnst_disabled : BOOLEAN, chain_initiator : {chain_initiator}]

AdminCallers == {chain_initiator, "P", "W"}

AdminAmounts == {Units(1), Units(2)}

\* The call's overlay is committed when the handler succeeded and dropped
\* otherwise.
Called(r) ==
  /\ Len(events) < MaxTxs
  /\ Commit(IF r.err = "ok" THEN r ELSE Ok(Store))
  /\ UNCHANGED <<blockVars, splitVars>>

MintST(params, caller, body) ==
  \E r \in {tx_mintst(params, Store, caller, body)} : Called(r)

BurnST(params, caller, body) ==
  \E r \in {tx_burnst(params, Store, caller, body)} : Called(r)

NextAdmin ==
  \/ \E params \in AdminParams, caller \in AdminCallers :
       \E body \in [to : {chain_initiator, "W"}, amount : AdminAmounts] :
         MintST(params, caller, body)
  \/ \E params \in AdminParams, caller \in AdminCallers :
       \E body \in [amount : AdminAmounts] : BurnST(params, caller, body)

SpecAdmin == BatchInit /\ [][NextAdmin]_vars

\* ------------------------------------------------------- message slots
\* A context here is its kind ("batch" for RuntimeBatchContext, "tx" for
\* RuntimeTxContext), its mode, max_messages and messages.
remaining_messages(ctx) ==
  IF ctx.max_messages >= Len(ctx.messages)
  THEN ctx.max_messages - Len(ctx.messages) ELSE 0

\* Mutant: the limit is set whatever it was.
limit_max_messages_any(ctx, m) ==
  [err |-> "ok", ctx |-> [ctx EXCEPT !.max_messages = m]]

\* limit_max_messages, the same in both kinds of context.
limit_max_messages(ctx, m) ==
  IF m > ctx.max_messages THEN [err |-> "OutOfMessageSlots", ctx |-> ctx]
  ELSE [err |-> "ok", ctx |-> [ctx EXCEPT !.max_messages = m]]

\* BatchContext::emit_messages.
emit_messages(ctx, msgs) ==
  IF Len(ctx.messages) + Len(msgs) > ctx.max_messages
  THEN [err |-> "OutOfMessageSlots", ctx |-> ctx]
  ELSE [err |-> "ok", ctx |-> [ctx EXCEPT !.messages = @ \o msgs]]

\* TxContext::emit_message on a transaction context.
TxContext_emit_message(ctx, msg) ==
  IF Len(ctx.messages) >= ctx.max_messages
  THEN [err |-> "OutOfMessageSlots", ctx |-> ctx]
  ELSE [err |-> "ok", ctx |-> [ctx EXCEPT !.messages = Append(@, msg)]]

\* with_child, the same in both kinds of context: a batch context in the
\* given mode.
with_child(ctx, mode) ==
  [kind |-> "batch", mode |-> mode,
   max_messages |-> IF mode = "SimulateTx" THEN ctx.max_messages
                    ELSE remaining_messages(ctx),
   messages |-> <<>>]

\* with_tx: a transaction context in the mode of its batch context.
with_tx(ctx) ==
  [kind |-> "tx", mode |-> ctx.mode, max_messages |-> remaining_messages(ctx),
   messages |-> <<>>]

\* The deepest nesting of contexts followed.
MaxDepth == 3

Innermost == contexts[Len(contexts)]

Returned(op, r) ==
  /\ contexts' = [contexts EXCEPT ![Len(contexts)] = r.ctx]
  /\ ctx_result' = Some([op |-> op, err |-> r.err])

LimitMaxMessages(m) ==
  /\ Returned("limit_max_messages", limit_max_messages(Innermost, m))
  /\ UNCHANGED <<govVars, blockVars, batch, all_batches, batch_result, shardVars,
                 evmVars, metaVars>>

EmitMessage ==
  /\ Innermost.kind = "tx"
  /\ Returned("emit_message", TxContext_emit_message(Innermost, "msg"))
  /\ UNCHANGED <<govVars, blockVars, batch, all_batches, batch_result, shardVars,
                 evmVars, metaVars>>

EmitMessages(n) ==
  /\ Innermost.kind = "batch"
  /\ Returned("emit_messages", emit_messages(Innermost, [i \in 1..n |-> "msg"]))
  /\ UNCHANGED <<govVars, blockVars, batch, all_batches, batch_result, shardVars,
                 evmVars, metaVars>>

WithChild(mode) ==
  /\ Len(contexts) < MaxDepth
  /\ contexts' = Append(contexts, with_child(Innermost, mode))
  /\ ctx_result' = None
  /\ UNCHANGED <<govVars, blockVars, batch, all_batches, batch_result, shardVars,
                 evmVars, metaVars>>

WithTx ==
  /\ Len(contexts) < MaxDepth
  /\ Innermost.kind = "batch"
  /\ contexts' = Append(contexts, with_tx(Innermost))
  /\ ctx_result' = None
  /\ UNCHANGED <<govVars, blockVars, batch, all_batches, batch_result, shardVars,
                 evmVars, metaVars>>

\* The innermost context ends.  The messages of a committed transaction
\* context are forwarded to its batch context outside checks (dispatch_tx_opts);
\* those of a child context go to the caller of with_child.
EndContext(commit) ==
  /\ Len(contexts) > 1
  /\ LET parent == contexts[Len(contexts) - 1]
         forwards == commit /\ Innermost.kind = "tx" /\ ~is_check_only(parent.mode)
         r == IF forwards THEN emit_messages(parent, Innermost.messages)
              ELSE [err |-> "ok", ctx |-> parent]
     IN /\ contexts' = Append(SubSeq(contexts, 1, Len(contexts) - 2), r.ctx)
        /\ ctx_result' = Some([op |-> "end", err |-> r.err])
  /\ UNCHANGED <<govVars, blockVars, batch, all_batches, batch_result, shardVars,
                 evmVars, metaVars>>

NextCtx ==
  \/ \E m \in 0..(MaxMessages + 1) : LimitMaxMessages(m)
  \/ EmitMessage
  \/ \E n \in 1..MaxMessages : EmitMessages(n)
  \/ \E mode \in Mode : WithChild(mode)
  \/ WithTx
  \/ \E commit \in BOOLEAN : EndContext(commit)

SpecCtx == BatchInit /\ [][NextCtx]_vars

\* ------------------------------------------------------- evm block hashes
\* The number of rounds whose hashes the evm module means to keep (its state
\* module is not part of the sources read here; the window is kept small).
BLOCK_HASH_WINDOW_SIZE == 3

\* The last round the evm module ends.
MaxHeight == 8

\* What encoded_hash may return for a header.
BlockHashes == {"h1", "h2"}

\* u64::to_be_bytes: eight bytes, the most significant first.
RECURSIVE BeBytes(_, _)
BeBytes(n, len) ==
  IF len = 0 THEN <<>> ELSE Append(BeBytes(n \div 256, len - 1), n % 256)

to_be_bytes(n) == BeBytes(n, 8)

\* evm end_block: insert the hash of the block under its round, then remove
\* the hash of the round one window back when the round exceeds the window.
evm_end_block(hashes, header) ==
  LET block_number == header.round
      key == to_be_bytes(block_number)
      inserted == [k \in DOMAIN hashes \cup {key} |->
                     IF k = key THEN header.encoded_hash ELSE hashes[k]]
  IN IF block_number > BLOCK_HASH_WINDOW_SIZE
     THEN LET start_number == block_number - BLOCK_HASH_WINDOW_SIZE
          IN [k \in DOMAIN inserted \ {to_be_bytes(start_number)} |-> inserted[k]]
     ELSE inserted

\* The evm module ends the block of the next round.
EvmEndBlock(hash) ==
  /\ evm_round <= MaxHeight
  /\ block_hashes' = evm_end_block(block_hashes,
                                    [round |-> evm_round, encoded_hash |-> hash])
  /\ evm_round' = evm_round + 1
  /\ UNCHANGED <<govVars, blockVars, batch, all_batches, batch_result, shardVars,
                 ctxVars, codes, info_cache, metaVars>>

NextHashes == \E hash \in BlockHashes : EvmEndBlock(hash)

SpecHashes == BatchInit /\ [][NextHashes]_vars

\* ------------------------------------------------------ a proposal's meta
MAX_META == 64

\* The longest byte string handed to the decoder.
MaxMetaLen == 66

ByteString(bytes) == [kind |-> "ByteString", bytes |-> bytes]

\* CBOR values: byte strings of one repeated byte, and values of other kinds.
CborValues ==
  {ByteString([i \in 1..n |-> b]) : n \in 0..MaxMetaLen, b \in {0, 255}}
    \cup {[kind |-> "TextString"], [kind |-> "Integer"], [kind |-> "Array"]}

\* [u8; MAX_META]::copy_from_slice: the two lengths must be the same, or the
\* call panics.
copy_from_slice(buf, bytes) ==
  IF Len(bytes) # Len(buf) THEN [err |-> "panic"] ELSE [err |-> "ok", buf |-> bytes]

\* Meta::try_from_cbor_value.
Meta_try_from_cbor_value(value) ==
  IF value.kind # "ByteString" THEN [err |-> "UnexpectedType"] ELSE
  IF Len(value.bytes) > MAX_META THEN [err |-> "UnexpectedType"] ELSE
  copy_from_slice([i \in 1..MAX_META |-> 0], value.bytes)

\* A proposal's meta field is decoded.
DecodeMeta(value) ==
  /\ decoded = None
  /\ decoded' = Some([value |-> value, result |-> Meta_try_from_cbor_value(value)])
  /\ UNCHANGED <<govVars, blockVars, batch, all_batches, batch_result, shardVars,
                 ctxVars, evmVars>>

NextMeta == \E value \in CborValues : DecodeMeta(value)

SpecMeta == BatchInit /\ [][NextMeta]_vars

\* ------------------------------------------------------------ the evm calls
\* An Ethereum address (its twenty bytes stand for an account's name), and
\* the account address it maps to.
H160(a) == <<"H160", a>>

map_address(address) == address[2]

\* derive_caller: the Ethereum address of the transaction's first signer.
derive_caller(tx) == H160(tx.signer_info[1].address)

\* Contracts run while executing; a check skips them, and so does a
\* simulation under the default local configuration.
should_execute_contracts(mode) == mode = "ExecuteTx"

\* Fee::gas_price: the fee divided by the gas limit, zero when there is no gas.
gas_price(fee) == IF fee.gas = 0 THEN 0 ELSE fee.amount \div fee.gas

\* What an evm handler works on: the transaction's overlay (the accounts'
\* store and the contract codes), the context values it shares with the
\* batch context (the fee accumulator), the static cache, and the gas the
\* transaction has used.
EvmContext(st, acc, evm_codes, cache) ==
  [st |-> st, acc |-> acc, codes |-> evm_codes, cache |-> cache, gas |-> 0]

EvmOk(c) == [err |-> "ok", ctx |-> c]

EvmErr(e, c) == [err |-> e, ctx |-> c]

remaining_tx_gas(c, tx) == IF tx.fee.gas < c.gas THEN 0 ELSE tx.fee.gas - c.gas

use_tx_gas(c, tx, gas) ==
  IF c.gas + gas > tx.fee.gas THEN EvmErr("OutOfGas", c)
  ELSE EvmOk([c EXCEPT !.gas = @ + gas])

\* move_from_fee_accumulator: the amount leaves the context's fee
\* accumulator, then is credited to the account in the store.
move_from_fee_accumulator(mode, c, to, amount) ==
  IF is_simulation(mode) THEN EvmOk(c) ELSE
  IF c.acc[amount.denomination] < amount.amount
  THEN EvmErr("InsufficientFeeBalance", c) ELSE
  LET c1 == [c EXCEPT !.acc[amount.denomination] = @ - amount.amount]
      a == add_amount(c1.st, to, amount)
  IN IF a.err # "ok" THEN EvmErr("InsufficientFeeBalance", c1)
     ELSE EvmOk([c1 EXCEPT !.st = [a.st EXCEPT !.pending = TRUE]])

\* The tail of transfer and of do_evm: charge the gas used, then move the
\* unused part of the prepaid fee back to the caller.
refund_unused(mode, c, tx, caller, gas_used, return_fee) ==
  LET g == use_tx_gas(c, tx, gas_used) IN
  IF g.err # "ok" THEN g ELSE
  LET mv == move_from_fee_accumulator(mode, g.ctx, map_address(caller),
              [amount |-> return_fee, denomination |-> tx.fee.denomination])
  IN IF mv.err # "ok" THEN EvmErr("InsufficientBalance", mv.ctx) ELSE mv

\* An error return that first charges the gas used.
charged_error(c, tx, gas_used, e) ==
  LET g == use_tx_gas(c, tx, gas_used) IN
  IF g.err # "ok" THEN g ELSE EvmErr(e, g.ctx)

\* evm transfer: a native transfer from the caller to the address, at the
\* fixed gas of a transfer.
evm_transfer(mode, c, tx, body) ==
  IF ~should_execute_contracts(mode) THEN EvmOk(c) ELSE
  LET caller == derive_caller(tx)
      from == map_address(caller)
      to == map_address(body.address)
      gas_limit == remaining_tx_gas(c, tx)
      max_gas_fee == gas_price(tx.fee) * gas_limit
      gas_used == 21000
      fee == gas_price(tx.fee) * gas_used
      my_result == transfer(mode, c.st, from, to, Units(body.value))
      c1 == [c EXCEPT !.st = my_result.st]
  IN IF my_result.err # "ok" THEN charged_error(c1, tx, gas_used, "InvalidArgument")
     ELSE IF max_gas_fee < fee THEN EvmErr("InsufficientBalance", c1)
     ELSE refund_unused(mode, c1, tx, caller, gas_used, max_gas_fee - fee)

\* What the interpreter does is outside the sources: a run ends with an exit
\* reason, the gas it used (never more than its limit) and the changes to
\* apply.  Of the changes the model keeps the value moved to the target and
\* the code installed there.
EvmExit(c, tx, source, target, value, outcome) ==
  IF outcome.used_gas > remaining_tx_gas(c, tx) THEN "OutOfGas"
  ELSE IF get_balance(c.st, map_address(source), NATIVE) < value THEN "OutOfFund"
  ELSE outcome.exit

backend_apply(c, source, target, value, code) ==
  LET moved == add_amount(sub_amount(c.st, map_address(source), Units(value)).st,
                          map_address(target), Units(value)).st
  IN [c EXCEPT !.st = [moved EXCEPT !.pending = TRUE],
               !.codes[map_address(target)] = IF code # <<>> THEN code ELSE @]

\* do_evm: run the interpreter, apply its changes, charge the gas and move
\* the unused part of the prepaid fee back to the source.
do_evm(mode, c, tx, source, target, value, code, outcome) ==
  LET gas_limit == remaining_tx_gas(c, tx)
      max_gas_fee == gas_price(tx.fee) * gas_limit
      exit_reason == EvmExit(c, tx, source, target, value, outcome)
      gas_used == IF outcome.used_gas > gas_limit THEN gas_limit ELSE outcome.used_gas
      fee == gas_price(tx.fee) * gas_used
  IN IF exit_reason # "Succeed" THEN charged_error(c, tx, gas_used, "Reverted")
     ELSE IF max_gas_fee < fee THEN EvmErr("InsufficientBalance", c)
     ELSE refund_unused(mode, backend_apply(c, source, target, value, code),
                        tx, source, gas_used, max_gas_fee - fee)

\* evm create: the contract goes to the address the interpreter derives
\* from the caller; an address that holds code already is a collision.
evm_create(mode, c, tx, body, outcome) ==
  IF ~should_execute_contracts(mode) THEN EvmOk(c) ELSE
  do_evm(mode, c, tx, derive_caller(tx), outcome.address, body.value, <<"code">>,
         IF c.codes[map_address(outcome.address)] # <<>>
         THEN [outcome EXCEPT !.exit = "CreateCollision"] ELSE outcome)

\* evm call.
evm_call(mode, c, tx, body, outcome) ==
  IF ~should_execute_contracts(mode) THEN EvmOk(c) ELSE
  do_evm(mode, c, tx, derive_caller(tx), body.address, body.value, <<>>, outcome)

get_code(c, address) == c.codes[map_address(address)]

\* LruCache::put (the capacity of 100000 entries is out of reach).
cache_put(cache, key, value) == (key :> value) @@ cache

\* evm.Call: read the code at the address; at check time cache the sender,
\* the receiver and whether the code is empty; then transfer when there is
\* no code, call the contract otherwise.  route names the one taken.
tx_call(mode, c, tx, body, outcome) ==
  LET code == get_code(c, body.address)
      c1 == IF mode = "CheckTx"
            THEN [c EXCEPT !.cache = cache_put(@, tx.hash,
                    Info(derive_caller(tx), body.address, code = <<>>))]
            ELSE c
  IN IF code = <<>>
     THEN [route |-> "transfer", r |-> evm_transfer(mode, c1, tx, body)]
     ELSE [route |-> "call", r |-> evm_call(mode, c1, tx, body, outcome)]

\* evm.Create.
tx_create(mode, c, tx, body, outcome) ==
  [route |-> "create", r |-> evm_create(mode, c, tx, body, outcome)]

\* dispatch_call for the evm module's methods.
dispatch_evm_call(mode, c, tx, outcome) ==
  IF tx.call.method = "evm.Call" THEN tx_call(mode, c, tx, tx.call.body, outcome)
  ELSE tx_create(mode, c, tx, tx.call.body, outcome)

\* What dispatch_tx_opts does once the handler has returned: the read-only
\* guard, then the overlay (store and codes) is committed, or rolled back
\* when the call failed, is read-only or was a check.  The context values
\* and the static cache are no part of the overlay.
evm_dispatched(mode, a, evm_codes, tx, route, c) ==
  LET guarded == IF tx.call.read_only /\ c.ctx.st.pending
                 THEN "ReadOnlyTransaction" ELSE c.err
      rolled_back == guarded # "ok" \/ tx.call.read_only
      committed == ~rolled_back /\ ~is_check_only(mode)
      kept == IF committed THEN [c.ctx.st EXCEPT !.pending = FALSE] ELSE a.st
      h == after_dispatch_tx(mode, kept, a.nonce, tx, guarded)
  IN [result |-> guarded, dispatched |-> TRUE, route |-> route, st |-> h.st,
      acc |-> c.ctx.acc, nonce |-> h.nonce,
      codes |-> IF committed THEN c.ctx.codes ELSE evm_codes,
      cache |-> c.ctx.cache]

evm_handled(mode, a, evm_codes, tx, called) ==
  evm_dispatched(mode, a, evm_codes, tx, called.route, called.r)

evm_authenticated(mode, st, acc, nonces, evm_codes, cache, tx, outcome, a) ==
  IF a.err # "ok"
  THEN [result |-> a.err, dispatched |-> FALSE, route |-> "none", st |-> st,
        acc |-> acc, nonce |-> nonces, codes |-> evm_codes, cache |-> cache]
  ELSE evm_handled(mode, a, evm_codes, tx,
         dispatch_evm_call(mode, EvmContext(a.st, a.acc, evm_codes, cache), tx, outcome))

\* dispatch_tx_opts for a transaction of the evm module.
dispatch_evm_tx(mode, st, acc, nonces, rnd, evm_codes, cache, tx, outcome) ==
  evm_authenticated(mode, st, acc, nonces, evm_codes, cache, tx, outcome,
                    authenticate_tx(mode, st, acc, nonces, rnd, tx))

\* split_txn_batch sends a transaction to the transfer graph when the cache
\* knows it as a pure transfer, and to the first output batch otherwise.
is_cached_transfer(cache, tx) == tx.hash \in DOMAIN cache /\ cache[tx.hash].transfer

\* The evm transactions of a block: V1 sends 1 to W, with and without
\* unused gas, read-only or not; A creates a contract.  Each sender's
\* transaction carries the nonce of its account at genesis.
EvmRaw(name, signer, gas, call) ==
  [hash |-> <<name, signer>>, signer_info |-> <<SI(signer, 0)>>,
   fee |-> [amount |-> gas, denomination |-> NATIVE, gas |-> gas],
   not_before |-> None, not_after |-> None, call |-> call]

EvmCallBody(to, value, read_only) ==
  [method |-> "evm.Call", read_only |-> read_only,
   body |-> [address |-> H160(to), value |-> value]]

EvmTxs ==
  { EvmRaw("call", "V1", 2 * 21000, EvmCallBody("W", 1, FALSE)),
    EvmRaw("view", "V1", 2 * 21000, EvmCallBody("W", 1, TRUE)),
    EvmRaw("exact", "V1", 21000, EvmCallBody("W", 1, FALSE)),
    EvmRaw("create", "A", 2 * 21000,
           [method |-> "evm.Create", read_only |-> FALSE, body |-> [value |-> 0]]) }

EvmModes == {"CheckTx", "ExecuteTx"}

\* What the interpreter may answer.
EvmOutcomes ==
  [exit : {"Succeed", "Revert"}, used_gas : {21000, 30000}, address : {H160("W")}]

EvmTxInit ==
  /\ Genesis([NoBalances EXCEPT !["A"][NATIVE] = GenesisFunds * 21000,
                                !["V1"][NATIVE] = GenesisFunds * 21000])
  /\ batch = <<>>
  /\ all_batches = None
  /\ batch_result = None
  /\ ShardsInit
  /\ RestInit

\* One evm transaction goes through dispatch_tx_opts.  While executing, what
\* it leaves behind is the new state; a check leaves its cache entry.
DispatchEvm(mode, tx, outcome) ==
  LET r == dispatch_evm_tx(mode, Store, pending_fees, nonce, round, codes, info_cache,
                           tx, outcome) IN
  /\ IF mode = "ExecuteTx"
     THEN Commit(r) /\ pending_fees' = r.acc /\ nonce' = r.nonce /\ codes' = r.codes
     ELSE UNCHANGED <<govVars, pending_fees, nonce, codes>>
  /\ info_cache' = r.cache
  /\ UNCHANGED <<round, batch, all_batches, batch_result, shardVars, ctxVars,
                 block_hashes, evm_round, metaVars>>

NextEvm ==
  \E mode \in EvmModes, tx \in EvmTxs, outcome \in EvmOutcomes :
    DispatchEvm(mode, tx, outcome)

SpecEvm == EvmTxInit /\ [][NextEvm]_vars

\* ---------------------------------------------------------------- splitting
SplitBatch(num_groups, order) ==
  /\ all_batches = None
  /\ all_batches' = Some(split_txn_batch(batch, num_groups, order))
  /\ UNCHANGED <<govVars, blockVars, batch, batch_result, shardVars, restVars>>

NextSplit ==
  \E num_groups \in 1..MaxGroups, order \in ComponentOrders(txn_infos(batch)) :
    SplitBatch(num_groups, order)

SpecSplit == SplitInit /\ [][NextSplit]_vars

\* =================================================================== claims
\* Vocabulary of the claims, stated independently of the handlers.
Terminal == {"Passed", "Rejected", "Cancelled"}

VoterRoleOf(action) ==
  CASE action = "Mint" -> "MintVoter"
    [] action = "Burn" -> "BurnVoter"
    [] action = "Whitelist" -> "WhitelistVoter"
    [] action = "Blacklist" -> "BlacklistVoter"
    [] action \in {"Config", "SetRoles"} -> "Admin"
    [] OTHER -> "no-such-role"

HoldersOf(r) == {a \in Addresses : role[a] = r}

\* The stored quorum the tally of an action reads (SetRoles is tallied
\* against the Config quorum), 100 when unset.
QuorumOf(action) ==
  LET key == IF action = "SetRoles" THEN "Config" ELSE action IN
  IF key \in DOMAIN quorum THEN quorum[key] ELSE 100

CeilPct(n, pct) == (n * pct + 99) \div 100

CeilHalf(n) == (n + 1) \div 2

Eligible(c, id) ==
  /\ id \in DOMAIN proposals
  /\ proposals[id].state = "Active"
  /\ role[c] = VoterRoleOf(proposals[id].content.action)
  /\ c \notin DOMAIN proposals[id].voteOption

VoteCall(c, id, o) == tx_votest(Store, c, [id |-> id, option |-> o])

\* Everything in the store except the proposals.
Rest(st) == [st EXCEPT !.proposals = <<>>]

\* Whether the action of a proposal can be carried out in the current state.
Applicable(content) ==
  LET d == content.data IN
  CASE content.action = "Mint" -> d.address # None /\ d.amount # None
    [] content.action = "Burn" ->
         /\ d.address # None /\ d.amount # None
         /\ balances[d.address[1]][d.amount[1].denomination] >= d.amount[1].amount
    [] content.action \in {"Whitelist", "Blacklist"} -> d.address # None
    [] content.action = "SetRoles" -> d.address # None /\ d.role # None
    [] OTHER -> TRUE

\* C1 as claimed: after every committed block, the end-of-block fee
\* disbursement included and whatever the good compute entities, the
\* balances of each denomination sum up to its stored total supply (what
\* check_invariants tests).
C1_SupplyAfterBlock ==
  [][ round' = round + 1 =>
        \A d \in Denominations : computed_ts(balances', d) = total_supply'[d] ]_vars

C3_Partition ==
  all_batches # None =>
    LET out == all_batches[1]
        places(tx) == {<<i, j>> \in (DOMAIN out) \X (1..(MaxBatch + 1)) :
                         j \in DOMAIN out[i] /\ out[i][j] = tx}
    IN /\ \A tx \in Range(batch) : Cardinality(places(tx)) = 1
       /\ \A i \in DOMAIN out : Range(out[i]) \subseteq Range(batch)

\* C4: a proposal that has left Active never changes again (in particular it
\* never becomes Active again), and the vote record of a proposal in a
\* terminal state is empty.
C4_TerminalIsFinal ==
  [][ /\ \A id \in DOMAIN proposals :
           proposals[id].state \in Terminal
             => id \in DOMAIN proposals' /\ proposals'[id] = proposals[id]
      /\ \A id \in DOMAIN proposals' :
           proposals'[id].state \in Terminal => proposals'[id].voteOption = <<>>
    ]_vars

\* C4 witness: one proposal is terminal, a second one was stored after it,
\* and a further vote on the terminal one is refused.
C4_Witness ==
  \E i \in DOMAIN proposals :
    /\ proposals[i].state \in Terminal
    /\ proposals[i].results["VoteYes"] + proposals[i].results["VoteNo"]
         + proposals[i].results["VoteAbstain"] >= 1
    /\ \E j \in DOMAIN proposals : j > i
    /\ \E c \in GovAddresses : VoteCall(c, i, "VoteYes").err = "InvalidState"

MintEvent1000 == [kind |-> "Mint", owner |-> "W", amount |-> Units(1000)]

MintScenario(id) ==
  /\ id \in DOMAIN proposals
  /\ proposals[id].content =
       [action |-> "Mint", data |-> [NoData EXCEPT !.address = Some("W"),
                                                   !.amount = Some(Units(1000))]]
  /\ HoldersOf("MintVoter") = {"V1", "V2", "V3"}
  /\ "Mint" \in DOMAIN quorum /\ quorum["Mint"] = 67
  /\ role["W"] = "WhitelistedUser"
  /\ proposals[id].results["VoteNo"] = 0
  /\ proposals[id].results["VoteAbstain"] = 0

AbstainAgreesOnU16 ==
  \A n \in 0..(U16 - 1) :
    \A k \in {0, CeilHalf(n) - 1, CeilHalf(n), U16 - 1} :
      k >= 0 => (AbstainReached(k, n) <=> k >= CeilHalf(n))

C9_VoteDup ==
  \A id \in DOMAIN proposals :
    proposals[id].state = "Active" =>
      \A c \in DOMAIN proposals[id].voteOption : \A o \in Vote :
        /\ VoteCall(c, id, o).err = "VoteDup"
        /\ VoteCall(c, id, o).st = Store

\* C9 witness: an Active proposal carries a recorded vote, and its voter
\* votes again.
C9_Witness ==
  \E id \in DOMAIN proposals :
    /\ proposals[id].state = "Active"
    /\ \E c \in DOMAIN proposals[id].voteOption :
         /\ proposals[id].results[proposals[id].voteOption[c]] >= 1
         /\ VoteCall(c, id, "VoteNo").err = "VoteDup"

\* C10 as claimed: a VoteST changes the stored proposal only if the proposal
\* is Active and the caller holds the voter role of its action; a vote on a
\* non-Active proposal fails with InvalidState, a vote by a caller with any
\* other role fails with InvalidRole, and both leave the store unchanged.
C10_Original ==
  \A c \in GovAddresses : \A id \in DOMAIN proposals : \A o \in Vote :
    LET p == proposals[id]
        r == VoteCall(c, id, o)
    IN /\ r.st.proposals # proposals =>
            p.state = "Active" /\ role[c] = VoterRoleOf(p.content.action)
       /\ p.state # "Active" => r.err = "InvalidState" /\ r.st = Store
       /\ (p.state = "Active" /\ role[c] # VoterRoleOf(p.content.action))
            => r.err = "InvalidRole" /\ r.st = Store

\* C10 as amended: as claimed, except that on an Active proposal a caller
\* with another role who already appears in the vote record (its role was
\* changed after it voted) is answered VoteDup; every other caller with
\* another role is answered InvalidRole.  The store is unchanged in all
\* these cases.
C10_VoteGuards ==
  \A c \in GovAddresses : \A id \in DOMAIN proposals : \A o \in Vote :
    LET p == proposals[id]
        r == VoteCall(c, id, o)
    IN /\ r.st.proposals # proposals =>
            p.state = "Active" /\ role[c] = VoterRoleOf(p.content.action)
       /\ p.state # "Active" => r.err = "InvalidState" /\ r.st = Store
       /\ (p.state = "Active" /\ role[c] # VoterRoleOf(p.content.action))
            => /\ r.err = (IF c \in DOMAIN p.voteOption THEN "VoteDup" ELSE "InvalidRole")
               /\ r.st = Store

\* C10 witness: one proposal is terminal and refuses a vote from a holder
\* of its voter role, another is Active and refuses a MintProposer.
C10_Witness ==
  /\ \E id \in DOMAIN proposals : \E c \in GovAddresses :
       /\ proposals[id].state \in Terminal
       /\ role[c] = VoterRoleOf(proposals[id].content.action)
       /\ VoteCall(c, id, "VoteYes").err = "InvalidState"
  /\ \E id \in DOMAIN proposals :
       /\ proposals[id].state = "Active"
       /\ proposals[id].content.action = "Mint"
       /\ role["P"] = "MintProposer"
       /\ VoteCall("P", id, "VoteYes").err = "InvalidRole"

\* ------------------------------------------------- claims on Propose, roles
\* The proposer role of an action, from the role matrix.
ProposerRoleOf(action) ==
  CASE action = "Mint" -> "MintProposer"
    [] action = "Burn" -> "BurnProposer"
    [] action = "Whitelist" -> "WhitelistProposer"
    [] action = "Blacklist" -> "BlacklistProposer"
    [] action \in {"Config", "SetRoles"} -> "Admin"
    [] OTHER -> "no-such-role"

\* Whether the caller may submit a proposal of the action.
MayPropose(c, action) == role[c] \in {ProposerRoleOf(action), VoterRoleOf(action)}

\* The requests handed to Propose when its answer is examined: every action,
\* with or without a target, with mint and config quorum fields absent, in
\* range or out of range.
ProposeBodies ==
  { [action |-> a,
     data |-> [NoData EXCEPT !.address = t, !.amount = Some(Units(5)),
                             !.role = Some("User"), !.mint_quorum = mq,
                             !.config_quorum = cq]] :
      a \in Action, t \in {None, Some("W"), Some("B1"), Some("V3"), Some("P")},
      mq \in {None, Some(100), Some(101)}, cq \in {None, Some(0), Some(255)} }

ProposeCall(c, body) == Dispatched(tx_propose(Store, c, body), Store)

\* Whether the request breaks the target constraint of its action.
ViolatesTarget(body) ==
  LET d == body.data
      quorums == {d.mint_quorum, d.burn_quorum, d.whitelist_quorum,
                  d.blacklist_quorum, d.config_quorum}
  IN CASE body.action \in {"Mint", "Burn"} ->
            d.address # None /\ role[d.address[1]] # "WhitelistedUser"
       [] body.action = "Whitelist" ->
            d.address # None /\ role[d.address[1]] = "BlacklistedUser"
       [] body.action = "Blacklist" ->
            d.address # None /\ role[d.address[1]] # "User"
       [] body.action = "Config" ->
            quorums = {None} \/ \E q \in quorums : q # None /\ q[1] > 100
       [] OTHER -> FALSE

\* C11: Propose stores something only for a caller whose role is the
\* proposer role or the voter role of the requested action, and what it
\* stores is one new Active proposal with the request as content; every
\* other caller, and every request with no action, is answered InvalidRole
\* with the store unchanged, and a caller with one of the two roles is never
\* answered InvalidRole.
C11_ProposeRoles ==
  \A c \in GovAddresses : \A body \in ProposeBodies :
    LET r == ProposeCall(c, body) IN
    /\ r.st # Store =>
         /\ MayPropose(c, body.action)
         /\ r.err = "ok"
         /\ DOMAIN r.st.proposals = DOMAIN proposals \cup {proposal_id + 1}
         /\ \A i \in DOMAIN proposals : r.st.proposals[i] = proposals[i]
         /\ r.st.proposals[proposal_id + 1].state = "Active"
         /\ r.st.proposals[proposal_id + 1].content = body
         /\ r.st.proposal_id = proposal_id + 1
         /\ Rest(r.st) = [Rest(Store) EXCEPT !.proposal_id = proposal_id + 1]
    /\ ~MayPropose(c, body.action) => r.err = "InvalidRole" /\ r.st = Store
    /\ body.action = "NoAction" => r.err = "InvalidRole"
    /\ MayPropose(c, body.action) => r.err # "InvalidRole"

\* C11 witness: a Whitelist proposal was stored, a WhitelistVoter could
\* submit one more, and the Admin is refused with InvalidRole.
C11_Witness ==
  LET wl == [action |-> "Whitelist", data |-> [NoData EXCEPT !.address = Some("W")]] IN
  /\ \E id \in DOMAIN proposals :
       proposals[id].content = wl /\ proposals[id].state = "Active"
  /\ role["V1"] = "WhitelistVoter" /\ ProposeCall("V1", wl).err = "ok"
  /\ role["A"] = "Admin" /\ ProposeCall("A", wl).err = "InvalidRole"

RECURSIVE RolesAfter(_, _)
RolesAfter(roles, body) ==
  IF body = <<>> THEN roles
  ELSE RolesAfter([roles EXCEPT ![Head(body).address] = Head(body).role], Tail(body))

\* C13: InitOwners is one-shot.  A call by another address than the
\* chain_initiator fails with Forbidden; a call by the chain_initiator whose
\* init flag is false assigns the roles of its list and sets the flag; a
\* call by the chain_initiator whose flag is set changes nothing; the flag,
\* once set, stays set.
C13_InitOwnersOnce ==
  /\ [](\A c \in GovAddresses : \A body \in InitBodies \cup InitBodiesR :
          LET r == tx_initowners(Store, c, body) IN
          /\ c # chain_initiator => r.err = "Forbidden" /\ r.st = Store
          /\ (c = chain_initiator /\ init[chain_initiator]) => r.st = Store
          /\ (c = chain_initiator /\ ~init[chain_initiator]) =>
               /\ r.err = "ok"
               /\ r.st.init[chain_initiator]
               /\ r.st.role = RolesAfter(role, body))
  /\ [][init[chain_initiator] => init'[chain_initiator]]_vars

\* C13 witness: the roles were assigned, one of them was changed by a
\* passed SetRoles proposal, and a further InitOwners call by the
\* chain_initiator with a list that would change roles leaves them alone.
C13_Witness ==
  /\ init[chain_initiator]
  /\ \E id \in DOMAIN proposals :
       proposals[id].state = "Passed" /\ proposals[id].content.action = "SetRoles"
  /\ \E body \in InitBodiesR :
       /\ RolesAfter(role, body) # role
       /\ tx_initowners(Store, chain_initiator, body).st = Store

\* C14 as claimed: in every reachable state each address has at most one
\* role-index entry, and for every role other than User the addresses the
\* index lists under the role are exactly the accounts whose stored role is
\* that role.
C14_RoleIndex ==
  /\ \A a \in Addresses : Cardinality({e \in roles_index : e[1] = a}) <= 1
  /\ \A r \in Role \ {"User"} :
       get_addresses_in_role(Store, r) = {a \in Addresses : role[a] = r}

\* ------------------------------------- claims on nonces and authentication
\* The nonces after one increment per occurrence in the signer list.
Bumped(tx) ==
  [a \in Addresses |->
     nonce[a] + Cardinality({i \in DOMAIN tx.signer_info : tx.signer_info[i].address = a})]

Payer(tx) == tx.signer_info[1].address

WindowOpen(tx) ==
  /\ tx.not_before = None \/ round >= tx.not_before[1]
  /\ tx.not_after = None \/ round <= tx.not_after[1]

NoncesMatch(tx) ==
  \A i \in DOMAIN tx.signer_info : tx.signer_info[i].nonce = nonce[tx.signer_info[i].address]

\* Whether the transaction passes authentication in the mode.
AuthOk(mode, tx) ==
  /\ WindowOpen(tx)
  /\ NoncesMatch(tx)
  /\ role[Payer(tx)] # "BlacklistedUser"
  /\ mode = "SimulateTx" \/ balances[Payer(tx)][tx.fee.denomination] >= tx.fee.amount

AuthResult(mode, tx) == authenticate_tx(mode, Store, pending_fees, nonce, round, tx).err

DispatchResult(mode, tx) == dispatch_tx_opts(mode, Store, pending_fees, nonce, round, tx)

\* C15: no step lowers the nonce of an account, no dispatch in any mode
\* leaves a nonce lower than it found it, and a transaction that is
\* executed successfully raises the nonce of each of its signers by one for
\* each time the address occurs in the signer list.
C15_NonceMonotone ==
  /\ [][\A a \in Addresses : nonce'[a] >= nonce[a]]_vars
  /\ [](\A mode \in Mode : \A tx \in Txs :
          LET r == DispatchResult(mode, tx) IN
          /\ \A a \in Addresses : r.nonce[a] >= nonce[a]
          /\ (mode = "ExecuteTx" /\ r.result = "ok") => r.nonce = Bumped(tx))

\* C15 witness: a transaction signed by A and W and a further one signed
\* by A were executed, one of them a successful transfer.
C15_Witness ==
  /\ nonce["A"] >= 2 /\ nonce["W"] >= 1 /\ events # <<>>

\* C16 as claimed: while executing, a transaction whose call fails leaves
\* every signer's nonce unchanged; during a check the nonces are updated
\* only when the call has succeeded.
C16_Original ==
  \A mode \in Mode : \A tx \in Txs :
    LET r == DispatchResult(mode, tx) IN
    /\ (mode = "ExecuteTx" /\ r.result # "ok") => r.nonce = nonce
    /\ (mode \in {"CheckTx", "PreScheduleTx"} /\ r.nonce # nonce) => r.result = "ok"

\* C16 as amended: a transaction that fails authentication is not
\* dispatched and leaves the nonces unchanged.  While executing (and while
\* simulating) a transaction that passes authentication has the nonce of
\* each signer incremented, once per occurrence, before its call is
\* dispatched, and the increment stays whether the call succeeds or fails.
\* During a check or a pre-schedule check the nonces are incremented only
\* after the call has succeeded; a failed call leaves them unchanged.
C16_NonceTiming ==
  \A mode \in Mode : \A tx \in Txs :
    LET r == DispatchResult(mode, tx) IN
    /\ ~AuthOk(mode, tx) => ~r.dispatched /\ r.nonce = nonce
    /\ (AuthOk(mode, tx) /\ mode \in {"ExecuteTx", "SimulateTx"}) =>
         r.dispatched /\ r.nonce = Bumped(tx)
    /\ (AuthOk(mode, tx) /\ mode \in {"CheckTx", "PreScheduleTx"}) =>
         r.dispatched /\ r.nonce = (IF r.result = "ok" THEN Bumped(tx) ELSE nonce)

\* C16 witness: the nonce of A went up although no transfer ever succeeded
\* and no fee was paid: the call of the executed transaction failed.
C16_Witness ==
  /\ nonce["A"] = 1
  /\ events = <<>>
  /\ balances["A"][NATIVE] = GenesisFunds
  /\ \E tx \in Txs :
       /\ AuthOk("CheckTx", tx)
       /\ DispatchResult("CheckTx", tx).result = "InvalidMethod"
       /\ DispatchResult("ExecuteTx", tx).nonce # nonce

Endpoints(b) ==
  UNION {{INFO_CACHE[tx].sender, INFO_CACHE[tx].receiver} :
           tx \in Range(b) \cap DOMAIN INFO_CACHE}

\* C19 as claimed: no address is the sender or receiver of transactions in
\* two different batches of the splitter's output, the first batch (the
\* transactions that are not pure transfers) included.
C19_DisjointBatches ==
  all_batches # None =>
    LET out == all_batches[1] IN
    \A i, j \in DOMAIN out : i # j => Endpoints(out[i]) \cap Endpoints(out[j]) = {}

\* C20 as claimed: any two pure transfers of the batch whose addresses are
\* linked, directly or through other transfers of the batch, are found
\* together in one of the transfer bins of the output.
C20_SameBin ==
  all_batches # None =>
    LET out == all_batches[1]
        transfers == txn_infos(batch)
    IN \A t1, t2 \in Range(transfers) :
         INFO_CACHE[t2].sender \in Reach(Edges(transfers), {INFO_CACHE[t1].sender})
           => \E i \in 2..Len(out) : {t1, t2} \subseteq Range(out[i])

\* C21: within every batch of the splitter's output, the transactions stand
\* in the same relative order as in the input batch.
C21_RelativeOrder ==
  all_batches # None =>
    LET out == all_batches[1]
        pos(tx) == CHOOSE i \in DOMAIN batch : batch[i] = tx
    IN \A k \in DOMAIN out : \A p, q \in DOMAIN out[k] :
         p < q => pos(out[k][p]) < pos(out[k][q])

\* A split whose output has a transfer bin of two or more transactions.
C21_Witness ==
  /\ all_batches # None
  /\ \E k \in 2..Len(all_batches[1]) : Len(all_batches[1][k]) >= 2

\* C22 as claimed: when the pure transfers of the batch form at most G
\* connected components, the split into G groups returns one bin per
\* component, holding that component's transfers, and a first batch that
\* holds exactly the transactions that are not pure transfers.
C22_OwnBins ==
  LET transfers == Range(txn_infos(batch))
      components == {{tx \in transfers : INFO_CACHE[tx].sender \in c} :
                       c \in ConnectedComponents(txn_infos(batch))}
  IN \A num_groups \in 1..MaxGroups, order \in ComponentOrders(txn_infos(batch)) :
       LET out == split_txn_batch(batch, num_groups, order) IN
       Cardinality(components) <= num_groups =>
         /\ Range(out[1]) = Range(batch) \ transfers
         /\ Len(out) = 1 + Cardinality(components)
         /\ {Range(out[k]) : k \in 2..Len(out)} = components

\* What the modelled handlers write: the runtime key and the balance a
\* transfer credits.
HandlerWrites(st) == [kv |-> st.kv, credited |-> st.balances["W"]]

\* What the context is before the call and what the handler leaves in the
\* transaction context, for a transaction that passes authentication.
BeforeCall(mode, tx) == authenticate_tx(mode, Store, pending_fees, nonce, round, tx)

HandlerOutput(mode, tx) ==
  dispatch_call(mode, BeforeCall(mode, tx).st, tx.signer_info[1].address, tx.call).st

\* The first part of C23, which holds as stated: the handler's writes and
\* messages reach the batch context exactly when the call succeeded, the
\* transaction is not read-only and the mode is not check-only.
PromotedIffCommitted(mode, tx) ==
  LET r == dispatch_tx_opts(mode, Store, pending_fees, nonce, round, tx)
      before == BeforeCall(mode, tx).st
      out == HandlerOutput(mode, tx)
      promoted == r.result = "ok" /\ ~tx.call.read_only /\ ~is_check_only(mode)
  IN IF promoted
     THEN /\ HandlerWrites(r.st) = HandlerWrites(out)
          /\ r.st.messages = before.messages \o out.tx_messages
          /\ r.tags = SubSeq(out.events, Len(before.events) + 1, Len(out.events))
                        \o out.etags_unconditional
     ELSE /\ HandlerWrites(r.st) = HandlerWrites(before)
          /\ r.st.messages = before.messages

\* C23 as stated: the storage writes, events and messages of a handler
\* reach the batch context if and only if the call succeeded, the
\* transaction is not read-only and the mode is not check-only, and in
\* every other case the result still carries the unconditional events.
C23_Original ==
  \A mode \in Mode, tx \in DecodedTxs :
    LET r == dispatch_tx_opts(mode, Store, pending_fees, nonce, round, tx)
        promoted == r.result = "ok" /\ ~tx.call.read_only /\ ~is_check_only(mode)
    IN r.dispatched =>
         /\ PromotedIffCommitted(mode, tx)
         /\ ~promoted => r.tags = HandlerOutput(mode, tx).etags_unconditional

\* C23, amended: the writes and messages of a handler reach the batch
\* context, and its events are returned with the unconditional ones merged
\* in, if and only if the call succeeded, the transaction is not read-only
\* and the mode is not check-only.  Otherwise the writes are discarded and
\* the ordinary events and messages dropped; the result carries exactly the
\* unconditional events when the call failed or the transaction is
\* read-only, and no event at all after a successful check of a
\* transaction that is not read-only.
C23_CommitOrRollback ==
  \A mode \in Mode, tx \in DecodedTxs :
    LET r == dispatch_tx_opts(mode, Store, pending_fees, nonce, round, tx)
    IN r.dispatched =>
         /\ PromotedIffCommitted(mode, tx)
         /\ r.result # "ok" \/ tx.call.read_only
              => r.tags = HandlerOutput(mode, tx).etags_unconditional
         /\ r.result = "ok" /\ ~tx.call.read_only /\ is_check_only(mode)
              => r.tags = <<>>

\* A transaction was executed whose handler's key, message and events were
\* promoted, and from the state it left a check of a transaction that
\* emits an unconditional event succeeds.
C23_Witness ==
  /\ kv.key = Some("emitted")
  /\ messages # <<>>
  /\ \E i \in DOMAIN events : events[i].kind = "Unconditional"
  /\ \E tx \in DecodedTxs :
       LET r == dispatch_tx_opts("CheckTx", Store, pending_fees, nonce, round, tx)
       IN /\ r.dispatched /\ r.result = "ok" /\ ~tx.call.read_only
          /\ HandlerOutput("CheckTx", tx).etags_unconditional # <<>>

\* C24: a read-only transaction whose handler performs a storage write is
\* answered with ReadOnlyTransaction and none of its writes reaches the
\* batch state; a read-only transaction whose handler only reads returns
\* the handler's result.
C24_ReadOnlyGuard ==
  \A mode \in Mode, tx \in DecodedTxs :
    LET r == dispatch_tx_opts(mode, Store, pending_fees, nonce, round, tx)
        before == BeforeCall(mode, tx).st
        handler == dispatch_call(mode, before, tx.signer_info[1].address, tx.call)
    IN r.dispatched /\ tx.call.read_only =>
         /\ HandlerWrites(r.st) = HandlerWrites(before)
         /\ r.result = IF handler.st.pending THEN "ReadOnlyTransaction" ELSE handler.err

\* The key holds the value an earlier transaction wrote; from this state
\* a read-only call of the writing handler is refused, although its write
\* would not change the value, and a read-only call of the reading handler
\* succeeds.
C24_Witness ==
  /\ kv.key = Some("value")
  /\ \E w, o \in CallTxs :
       /\ w.call = [method |-> "alphabet.NotReadOnly", read_only |-> TRUE, body |-> <<>>]
       /\ o.call = [method |-> "alphabet.ReadOnly", read_only |-> TRUE, body |-> <<>>]
       /\ LET rw == dispatch_tx_opts("ExecuteTx", Store, pending_fees, nonce, round, w)
              ro == dispatch_tx_opts("ExecuteTx", Store, pending_fees, nonce, round, o)
          IN /\ rw.dispatched /\ rw.result = "ReadOnlyTransaction" /\ rw.st.kv = kv
             /\ ro.dispatched /\ ro.result = "ok"

\* The state a batch starts from, and the batch context made of it.
BatchStart == [st |-> Store, nonce |-> nonce, rnd |-> round]

BatchCtx ==
  [st |-> [Store EXCEPT !.events = <<>>, !.messages = <<>>],
   acc |-> NoFees, nonce |-> nonce, rnd |-> round]

Aborts(tx) == tx.call.method = "alphabet.Aborting"

\* C25: when the handler of a transaction of a batch returns an abort,
\* dispatching the transaction returns the Aborted error, and the batch
\* stops with that error: the transactions after it are not executed, and
\* end_block is not run (nothing of the batch is committed).
C25_AbortStopsBatch ==
  \A b \in RawBatches, ev \in MessageEvents, good \in SUBSET Entities :
    \A k \in DOMAIN b :
      (/\ Aborts(b[k])
       /\ \A i \in DOMAIN b : ~b[i].malformed
       /\ handle_last_round_messages(Store, ev).err = "ok")
      => LET f == execute_batch(BatchCtx, b)
             r == execute_batch_common(BatchStart, ev, good, FALSE, b)
         IN /\ dispatch_tx_opts("ExecuteTx", f.st, f.acc, f.nonce, round, b[k]).result
                 = "Aborted"
            /\ f.err = "Aborted"
            /\ Len(f.results) = k - 1
            /\ r.err = "Aborted"
            /\ r.st = Store /\ r.nonce = nonce /\ r.results = <<>>

\* A batch was executed in an earlier round, and the last batch stopped
\* with the abort: it left no result and no new round.
C25_Witness ==
  /\ round = 1
  /\ batch_result = Some([err |-> "Aborted", executed |-> 0, rejected |-> 0])
  /\ \E b \in RawBatches :
       /\ Len(b) = MaxTxs /\ Aborts(b[2]) /\ \A i \in DOMAIN b : ~b[i].malformed
       /\ Len(execute_batch(BatchCtx, b).results) = 1

\* The scheduling loop as it stands when it comes to position p of the
\* queue b, and the pre-schedule check of the transaction at p there.
BeforeTx(b, p) == schedule_and_execute_batch(BatchCtx, SubSeq(b, 1, p - 1))

Taken(b, p) ==
  /\ BeforeTx(b, p).gas >= SCHEDULE_CONTROL.min_remaining_gas
  /\ Len(BeforeTx(b, p).batch) < SCHEDULE_CONTROL.max_tx_count

Fits(b, p) ==
  /\ b[p].fee.gas <= BeforeTx(b, p).gas
  /\ b[p].fee.consensus_messages
       <= BeforeTx(b, p).st.max_messages - Len(BeforeTx(b, p).st.messages)

PreScheduleCheck(b, p) ==
  LET at == BeforeTx(b, p) IN
  dispatch_tx_opts("PreScheduleTx",
                   [at.st EXCEPT !.events = <<>>, !.messages = <<>>,
                                 !.max_messages = @ - Len(at.st.messages)],
                   NoFees, at.nonce, round, b[p])

\* C26: in schedule-and-execute each transaction taken from the queue is
\* handled in exactly one way.  It is executed and in the output batch when
\* its pre-schedule check succeeded; rejected when it is malformed or its
\* check failed with anything but FutureNonce; skipped, and not rejected,
\* on FutureNonce or when its gas or message slots do not fit.  No
\* transaction is both executed and rejected, and none is executed once
\* the remaining gas is below min_remaining_gas or the output batch holds
\* max_tx_count transactions.
C26_ScheduleOneWay ==
  \A b \in RawBatches :
    LET s == schedule_and_execute_batch(BatchCtx, b)
        executed == {s.batch[i].hash : i \in DOMAIN s.batch}
        rejected == {s.tx_reject_hashes[i] : i \in DOMAIN s.tx_reject_hashes}
    IN s.err = "ok" =>
         /\ executed \cap rejected = {}
         /\ Len(s.results) = Len(s.batch)
         /\ Len(s.batch) <= SCHEDULE_CONTROL.max_tx_count
         /\ \A p \in DOMAIN b :
              LET check == PreScheduleCheck(b, p)
                  way == <<b[p].hash \in executed, b[p].hash \in rejected>>
              IN way = IF ~Taken(b, p) THEN <<FALSE, FALSE>>
                       ELSE IF b[p].malformed THEN <<FALSE, TRUE>>
                       ELSE IF ~Fits(b, p) THEN <<FALSE, FALSE>>
                       ELSE IF check.result = "ok" THEN <<TRUE, FALSE>>
                       ELSE IF check.result = "FutureNonce" THEN <<FALSE, FALSE>>
                       ELSE <<FALSE, TRUE>>

\* A queue was scheduled with a transaction executed and one rejected, and
\* from the state it left there is a queue of which one transaction is
\* rejected for its failed check, one executed, and one left in the queue
\* because the gas is used up.
C26_Witness ==
  /\ batch_result # None
  /\ batch_result[1].err = "ok"
  /\ batch_result[1].executed >= 1 /\ batch_result[1].rejected >= 1
  /\ \E b \in RawBatches :
       LET s == schedule_and_execute_batch(BatchCtx, b) IN
       /\ Len(b) = MaxTxs /\ s.err = "ok"
       /\ ~b[1].malformed /\ s.tx_reject_hashes = <<b[1].hash>>
       /\ s.batch = <<b[2]>>
       /\ ~Taken(b, MaxTxs)
       /\ Len(BeforeTx(b, MaxTxs).batch) < SCHEDULE_CONTROL.max_tx_count

\* The round results a block may start with: up to MaxMessages events,
\* each naming a message index up to MaxMessages.
RoundEvents == UNION {[1..n -> [index : 0..MaxMessages]] : n \in 0..MaxMessages}

\* An event without a persisted hook left for it: its index names no
\* persisted hook, or an earlier event has taken the hook.
WithoutHook(ev, i) ==
  \/ ev[i].index + 1 \notin DOMAIN kv.message_handlers
  \/ \E j \in 1..(i - 1) : ev[j].index = ev[i].index

\* C30: processing the last round's message results succeeds only if the
\* events and the persisted hooks correspond one to one by index, and then
\* each hook is dispatched exactly once, with its stored payload; an event
\* without a persisted hook yields MessageHandlerMissing, and otherwise a
\* persisted hook without an event yields MessageHandlerNotInvoked.
C30_MessageResults ==
  \A ev \in RoundEvents :
    LET r == handle_last_round_messages(Store, ev)
        hooks == {i - 1 : i \in DOMAIN kv.message_handlers}
        named == {ev[i].index : i \in DOMAIN ev}
    IN /\ r.err = IF \E i \in DOMAIN ev : WithoutHook(ev, i) THEN "MessageHandlerMissing"
                  ELSE IF named # hooks THEN "MessageHandlerNotInvoked"
                  ELSE "ok"
       /\ r.err = "ok" =>
            /\ Len(ev) = Cardinality(hooks)
            /\ Len(r.dispatched) = Len(ev)
            /\ \A i \in DOMAIN ev :
                 r.dispatched[i] = [hook_name |-> kv.message_handlers[ev[i].index + 1].hook_name,
                                    event |-> ev[i],
                                    context |-> kv.message_handlers[ev[i].index + 1].payload]
            /\ \A h \in hooks : Cardinality({i \in DOMAIN ev : ev[i].index = h}) = 1

\* Two hooks with different payloads are persisted, the batch that followed
\* was refused for a hook without event, and the events taken in the other
\* order have each hook dispatched with its own payload.
C30_Witness ==
  /\ Len(kv.message_handlers) = 2
  /\ kv.message_handlers[1].payload # kv.message_handlers[2].payload
  /\ batch_result = Some([err |-> "MessageHandlerNotInvoked", executed |-> 0, rejected |-> 0])
  /\ LET r == handle_last_round_messages(Store, <<[index |-> 1], [index |-> 0]>>)
     IN /\ r.err = "ok"
        /\ r.dispatched[1].context = kv.message_handlers[2].payload
        /\ r.dispatched[2].context = kv.message_handlers[1].payload

\* ---- the shards of one batch
LastShard == num_th - 1

AllReturned == \A th_idx \in Shards : shards[th_idx].pc = "done"

\* The fees the shards of the batch collected, all together.
CollectedFees ==
  SumOver([th_idx \in Shards |-> [NATIVE |-> shards[th_idx].collected]], Shards, NATIVE)

\* How often a hook is in a sequence of hooks.
Occurrences(handlers, h) == Cardinality({i \in DOMAIN handlers : handlers[i] = h})

\* C27: for every interleaving of the G > 1 shards of a batch, the fee
\* accumulator the last shard hands to end_block holds exactly the sum of the
\* fees collected by all the shards: once the shards have returned, what
\* end_block ran with is that sum.
C27_FeesAggregated ==
  (num_th > 1 /\ AllReturned) => end_block_fees = Some(CollectedFees)

\* C28: for every interleaving of the shards of a batch, the hooks persisted
\* for the next round are written by the last shard and hold every hook that
\* any shard of the batch emitted exactly once (and nothing else): once the
\* shards have returned, the persisted hooks are those.
C28_HooksPersisted ==
  AllReturned =>
    /\ \A th_idx \in Shards : \A i \in DOMAIN shards[th_idx].handlers :
         Occurrences(kv.message_handlers, shards[th_idx].handlers[i]) = 1
    /\ \A i \in DOMAIN kv.message_handlers :
         \E th_idx \in Shards : Occurrences(shards[th_idx].handlers, kv.message_handlers[i]) = 1

\* C29: when the last shard of a batch has finished, INFO_CACHE, MSG_HANDLERS
\* and CTX_FEE_ACCUM are empty, so that nothing written during one batch is
\* read during a later one.
C29_SharedEmpty ==
  shards[LastShard].pc = "done" =>
    /\ DOMAIN INFO_CACHE = {}
    /\ MSG_HANDLERS = <<>>
    /\ CTX_FEE_ACCUM = <<>>

\* ---- message slots
\* The limits a caller may ask for, and the emissions it may try.
Limits == 0..(MaxMessages + 1)

Emissions == 0..(MaxMessages + 1)

\* limit_max_messages(m) on ctx tightens or refuses, as the claim says.
LimitTightens(ctx, m) ==
  LET r == limit_max_messages(ctx, m)
  IN IF m <= ctx.max_messages
     THEN r.err = "ok" /\ r.ctx = [ctx EXCEPT !.max_messages = m]
     ELSE r.err = "OutOfMessageSlots" /\ r.ctx = ctx

\* An emission of n messages at once (a batch context) or of one message (a
\* transaction context) that would go above the limit fails and adds none;
\* the others are added.
EmissionBounded(ctx, n) ==
  LET r == IF ctx.kind = "tx" THEN TxContext_emit_message(ctx, "msg")
           ELSE emit_messages(ctx, [i \in 1..n |-> "msg"])
      k == IF ctx.kind = "tx" THEN 1 ELSE n
  IN IF Len(ctx.messages) + k > ctx.max_messages
     THEN r.err = "OutOfMessageSlots" /\ r.ctx = ctx
     ELSE r.err = "ok" /\ Len(r.ctx.messages) = Len(ctx.messages) + k
          /\ r.ctx.max_messages = ctx.max_messages

\* C31 as stated: in any context (each is the innermost one, where the
\* operations apply, until it gets a child) limit_max_messages only tightens, an
\* emission above the limit fails with OutOfMessageSlots and adds nothing,
\* and every transaction or child context starts with a limit equal to its
\* parent's remaining slots, whatever the child's mode.
C31_Original ==
    LET ctx == Innermost IN
    /\ \A m \in Limits : LimitTightens(ctx, m)
    /\ \A n \in Emissions : EmissionBounded(ctx, n)
    /\ with_tx(ctx).max_messages = remaining_messages(ctx)
    /\ \A mode \in Mode : with_child(ctx, mode).max_messages = remaining_messages(ctx)

\* C31 amended: in any context limit_max_messages only tightens, an emission
\* above the limit fails with OutOfMessageSlots and adds nothing, a
\* transaction context and a child context in a mode other than SimulateTx
\* start with a limit equal to the parent's remaining slots, and a child
\* context in mode SimulateTx starts with the parent's limit itself.
C31_MessageSlots ==
    LET ctx == Innermost
        i == Len(contexts) IN
    /\ \A m \in Limits : LimitTightens(ctx, m)
    /\ \A n \in Emissions : EmissionBounded(ctx, n)
    /\ with_tx(ctx).max_messages = remaining_messages(ctx)
    /\ \A mode \in Mode :
         with_child(ctx, mode).max_messages =
           IF mode = "SimulateTx" THEN ctx.max_messages ELSE remaining_messages(ctx)
    /\ i > 1 =>
         /\ contexts[i].max_messages <= contexts[i - 1].max_messages
         /\ contexts[i].mode # "SimulateTx" =>
              contexts[i].max_messages <= remaining_messages(contexts[i - 1])

\* A batch context that emitted a message holds a simulation child whose
\* limit is above the slots the parent has left; in the child a transaction
\* context was refused a higher limit.
C31_Witness ==
  /\ Len(contexts) = 3
  /\ contexts[1].messages # <<>>
  /\ contexts[2].mode = "SimulateTx"
  /\ contexts[2].max_messages > remaining_messages(contexts[1])
  /\ contexts[3].kind = "tx"
  /\ contexts[3].max_messages < contexts[2].max_messages
  /\ ctx_result = Some([op |-> "limit_max_messages", err |-> "OutOfMessageSlots"])

\* ---- the disbursement at the end of a block
\* What end_block with the good compute entities good credits to address a.
Credited(st, good, a) ==
  end_block(st, NoFees, good).st.balances[a][NATIVE] - st.balances[a][NATIVE]

\* The claim's example: the fee-accumulator address holds 1,000,000 and
\* the three entities are good.
ExampleDisbursed ==
  LET st == [Store EXCEPT !.balances[ADDRESS_FEE_ACCUMULATOR][NATIVE] = 1000000]
  IN /\ Cardinality(Entities) = 3
     /\ Credited(st, Entities, ADDRESS_COMMON_POOL) = 100000
     /\ \A e \in Entities : Credited(st, Entities, e) = 300000
     /\ Credited(st, Entities, ADDRESS_FEE_ACCUMULATOR) = -1000000
     /\ 1000000 - 100000 - 3 * 300000 = 0

\* C32 as stated: at the end of a block with F drained from the
\* fee-accumulator address and K >= 1 good compute entities, the common
\* pool is credited a tenth of F (rounded down) and each entity
\* floor(0.9 * F / K), for every F and K; and the example holds.
C32_Original ==
  /\ \A good \in (SUBSET Entities) \ {{}} :
       LET F == balances[ADDRESS_FEE_ACCUMULATOR][NATIVE]
           K == Cardinality(good)
       IN /\ Credited(Store, good, ADDRESS_COMMON_POOL) = F \div 10
          /\ \A e \in good : Credited(Store, good, e) = (9 * F) \div (10 * K)
  /\ ExampleDisbursed

\* C32 amended: the common pool is credited floor(F / 10) and each of the
\* K entities floor((F - floor(F / 10)) / K), nobody else is credited, for
\* every F and K >= 1; and the example holds.
C32_Disbursement ==
  /\ \A good \in (SUBSET Entities) \ {{}} :
       LET F == balances[ADDRESS_FEE_ACCUMULATOR][NATIVE]
           K == Cardinality(good)
       IN /\ Credited(Store, good, ADDRESS_COMMON_POOL) = F \div 10
          /\ \A e \in good : Credited(Store, good, e) = (F - F \div 10) \div K
          /\ \A a \in Addresses \ (good \cup {ADDRESS_COMMON_POOL, ADDRESS_FEE_ACCUMULATOR}) :
               Credited(Store, good, a) = 0
  /\ ExampleDisbursed

\* A block ended with 11 in the fee-accumulator address and one good
\* entity: the pool got 1 and the entity 10, where nine tenths are 9.
C32_Witness ==
  /\ balances[ADDRESS_COMMON_POOL][NATIVE] = 1
  /\ \E e \in Entities :
       /\ balances[e][NATIVE] = 10
       /\ \A o \in Entities \ {e} : balances[o][NATIVE] = 0

\* ---- the administrative calls
\* The call left every balance and the total supply as they were.
NothingMoved(r) ==
  /\ r.st.balances = balances
  /\ r.st.total_supply = total_supply

\* C33: MintST and BurnST change a balance or the total supply only when
\* the caller is the chain initiator and the call's disabled flag is off;
\* for any other caller the call fails with Forbidden and changes no
\* balance and no supply.
C33_AdminOnly ==
  \A params \in AdminParams, caller \in AdminCallers :
    /\ \A body \in [to : {chain_initiator, "W"}, amount : AdminAmounts] :
         LET r == tx_mintst(params, Store, caller, body)
         IN /\ ~NothingMoved(r) => caller = chain_initiator /\ ~params.mintst_disabled
            /\ caller # chain_initiator => r.err = "Forbidden" /\ NothingMoved(r)
    /\ \A body \in [amount : AdminAmounts] :
         LET r == tx_burnst(params, Store, caller, body)
         IN /\ ~NothingMoved(r) => caller = chain_initiator /\ ~params.burnst_disabled
            /\ caller # chain_initiator => r.err = "Forbidden" /\ NothingMoved(r)

\* ---- proposal ids
\* C34: after any sequence of Propose transactions run through the
\* dispatcher, successful or failed, the stored counter equals the number
\* of stored proposals, the stored ids are exactly 1..counter, each
\* proposal stored under its own id, and no Propose changes a proposal
\* that was stored before.
C34_ProposalIds ==
  [][ /\ proposal_id' = Cardinality(DOMAIN proposals')
      /\ DOMAIN proposals' = 1..proposal_id'
      /\ \A i \in DOMAIN proposals' : proposals'[i].id = i
      /\ \A i \in DOMAIN proposals : proposals'[i] = proposals[i] ]_vars

\* Two proposals are stored under the ids 1 and 2, after V1 had a Propose
\* executed and refused, and in this state a Propose for a target that is
\* not whitelisted is refused after the handler took the next id.
C34_Witness ==
  /\ proposal_id = 2 /\ DOMAIN proposals = {1, 2}
  /\ nonce["V1"] > 0
  /\ LET body == [action |-> "Mint", data |-> [NoData EXCEPT !.address = Some("V1"),
                                                           !.amount = Some(Units(1))]]
         r == tx_propose(Store, "P", body)
     IN r.err = "InvalidArgument" /\ r.st.proposal_id = 3

\* ---- evm block hashes
\* The rounds of the window ending at round r.
WindowRounds(r) == {k \in 0..r : k + BLOCK_HASH_WINDOW_SIZE > r}

\* C35: once the evm end_block has run for the rounds 0..r, the stored block
\* hashes are exactly those of the rounds greater than r - W and at most r:
\* never more than W hashes, and none older than the window.
C35_HashWindow ==
  evm_round > 0 =>
    /\ DOMAIN block_hashes = {to_be_bytes(k) : k \in WindowRounds(evm_round - 1)}
    /\ Cardinality(DOMAIN block_hashes) <= BLOCK_HASH_WINDOW_SIZE

\* What the code keeps: the window's rounds and, for ever, round 0.
C35_RoundZeroKept ==
  evm_round > 0 =>
    DOMAIN block_hashes = {to_be_bytes(k) : k \in WindowRounds(evm_round - 1) \cup {0}}

\* ---- the target of a mint or burn
\* The proposals a step passes: Active before it, Passed after.
PassedBy(before, after) ==
  {id \in DOMAIN before : before[id].state = "Active" /\ after[id].state = "Passed"}

\* C37: whenever a passed Mint or Burn proposal is applied, the address it
\* credits or debits holds role WhitelistedUser at the moment of application,
\* also when another proposal changed that role after the Propose.
C37_TargetWhitelisted ==
  [][ \A id \in PassedBy(proposals, proposals') :
        proposals[id].content.action \in {"Mint", "Burn"} =>
          role[proposals[id].content.data.address[1]] = "WhitelistedUser" ]_vars

\* The role is tested when the proposal is made: every stored Mint or Burn
\* proposal was made for an address that was whitelisted then.
C37_TestedAtPropose ==
  [][ \A id \in DOMAIN proposals' \ DOMAIN proposals :
        proposals'[id].content.action \in {"Mint", "Burn"} =>
          role[proposals'[id].content.data.address[1]] = "WhitelistedUser" ]_vars

\* ---- the end of the voting
\* Every holder of the proposal's voter role has a vote recorded on it.
AllVotesCast(id) ==
  LET voters == HoldersOf(VoterRoleOf(proposals[id].content.action)) IN
  voters # {} /\ voters \subseteq DOMAIN proposals[id].voteOption

\* C38: once every address holding the action's voter role has cast its vote
\* on an Active proposal, the proposal is Passed, Rejected or Cancelled,
\* whatever the number of voters, the quorum and the split of the votes.
C38_VotingEnds ==
  \A id \in DOMAIN proposals :
    AllVotesCast(id) => proposals[id].state \in Terminal

\* A split that decides nothing: three mint voters, the quorum at 100, two
\* Yes and one Abstain.
C38_Undecided ==
  /\ 1 \in DOMAIN proposals
  /\ proposals[1].state = "Active"
  /\ proposals[1].content.action = "Mint"
  /\ QuorumOf("Mint") = 100
  /\ HoldersOf("MintVoter") = {"V1", "V2", "V3"}
  /\ proposals[1].voteOption = [a \in {"V1", "V2", "V3"} |->
                                  IF a = "V2" THEN "VoteAbstain" ELSE "VoteYes"]

\* ---- a proposal's meta
\* C40: decoding a proposal's meta never aborts the process: a byte string
\* of 0 to 64 bytes decodes to a Meta, a longer one and a value that is no
\* byte string are refused with a decode error.
C40_MetaDecodes ==
  decoded # None =>
    LET value == decoded[1].value
        result == decoded[1].result
    IN /\ result.err # "panic"
       /\ result.err = "ok" <=> (value.kind = "ByteString" /\ Len(value.bytes) <= MAX_META)
       /\ result.err # "ok" => result.err = "UnexpectedType"

\* What the decoder does: it accepts the byte strings of exactly 64 bytes,
\* refuses the longer ones and the other kinds, and panics on the shorter.
C40_ExactLength ==
  decoded # None =>
    LET value == decoded[1].value
        result == decoded[1].result
    IN IF value.kind # "ByteString" THEN result.err = "UnexpectedType"
       ELSE IF Len(value.bytes) > MAX_META THEN result.err = "UnexpectedType"
       ELSE IF Len(value.bytes) = MAX_META
            THEN result.err = "ok" /\ result.buf = value.bytes
       ELSE result.err = "panic"

\* ---- the fees of a block and the evm refunds
\* C36: at every point of a block the pending fee total is what the payers
\* were debited less what was credited back to them in committed state: a
\* rolled back call leaves nothing of its refund in the fee accumulator.
\* No evm transaction mints or burns, so the fees pending are what the
\* balances lack of the total supply.
C36_FeesAccounted ==
  \A d \in Denominations :
    pending_fees[d] = total_supply[d] - computed_ts(balances, d)

\* The refund of a committed evm transaction is accounted for: a step that
\* changes the balances of nobody but by the fee kept leaves the two sides
\* of C36 moving together.
C36_CommittedAccounted ==
  [][ \A tx \in EvmTxs, outcome \in EvmOutcomes :
        LET r == dispatch_evm_tx("ExecuteTx", Store, pending_fees, nonce, round, codes,
                                 info_cache, tx, outcome)
        IN (r.dispatched /\ r.result = "ok" /\ ~tx.call.read_only) =>
             \A d \in Denominations :
               r.acc[d] - pending_fees[d]
                 = computed_ts(balances, d) - computed_ts(r.st.balances, d) ]_vars

\* ---- the transfer bins
\* C39: a transaction the splitter takes for a pure transfer is executed as
\* a native transfer between the cached sender and receiver, also when code
\* was deployed at the receiver after the check.
C39_TransferBin ==
  \A tx \in EvmTxs, outcome \in EvmOutcomes :
    LET r == dispatch_evm_tx("ExecuteTx", Store, pending_fees, nonce, round, codes,
                             info_cache, tx, outcome)
    IN (is_cached_transfer(info_cache, tx) /\ r.dispatched) =>
         /\ r.route = "transfer"
         /\ info_cache[tx.hash].sender = derive_caller(tx)
         /\ info_cache[tx.hash].receiver = tx.call.body.address

\* The cache entry of a transaction says what the code at its receiver was
\* when the transaction was last checked.
C39_CachedAtCheck ==
  [][ \A tx \in EvmTxs :
        (tx.hash \in DOMAIN info_cache' /\ (tx.hash \notin DOMAIN info_cache
                                           \/ info_cache'[tx.hash] # info_cache[tx.hash])) =>
          info_cache'[tx.hash] =
            Info(derive_caller(tx), tx.call.body.address,
                 codes[map_address(tx.call.body.address)] = <<>>) ]_vars

====
